---- MODULE Spec2Model ----
(***************************************************************************)
(* Model of the credential manager (lib/storage/object_storage.py), the    *)
(* manifest applier (lib/k8s.py) and the Warp benchmark runner             *)
(* (lib/storage/warp.py) of coreweave/reference-architecture.              *)
(***************************************************************************)
EXTENDS Integers, Sequences, FiniteSets, TLC

(***************************************************************************)
(* Program constants.                                                      *)
(***************************************************************************)
\* object_storage.py:16, seconds
DEFAULT_ACCESS_TOKEN_DURATION == 43200
\* object_storage.py:128, timedelta(minutes=5) in seconds
REFRESH_MARGIN == 300
\* object_storage.py:98-99, a key that is None (or the empty string): falsy
NoKey == 0

(***************************************************************************)
(* Bounds of the model.                                                    *)
(***************************************************************************)
\* how many times the wall clock is advanced
MaxClockAdvances == 2
\* how many mint requests are sent to the CoreWeave API
MaxMintRequests == 2

\* The amounts by which the wall clock advances between two steps: a second,
\* the refresh margin, and what is left of a default credential's life one
\* second before the margin starts.
TimeJumps == {1, REFRESH_MARGIN, DEFAULT_ACCESS_TOKEN_DURATION - REFRESH_MARGIN - 1}

VARIABLES
    now,                    \* datetime.now(UTC), in seconds
    ticks,                  \* number of clock advances so far
    variant,                \* "pod" (PodIdentityObjectStorage) or "access_key"
    constructed,            \* "ok" or the error __init__ raised
    cw_token,               \* TRUE iff self.cw_token is a non-empty string
    _access_key_id,         \* NoKey or the serial of the mint response it is from
    _secret_access_key,     \* NoKey or the serial of the mint response it is from
    _credentials_expiry,    \* <<>> (None) or <<t>>
    _credential_duration,
    _s3_client,             \* NoClient or the cached client
    mintRequests,           \* number of POSTs sent to the mint endpoint
    credLog,                \* credLog[n]: the expiry recorded for mint response n
    clientSerial,           \* number of boto3 clients constructed so far
    retired,                \* serials of the clients built before a successful refresh
    s3pc,                   \* position inside AccessKeyObjectStorage.s3_client
    argAkid,                \* evaluated aws_access_key_id argument of boto3.client
    argSecret,              \* evaluated aws_secret_access_key argument
    s3Refreshed,            \* a refresh was attempted during this s3_client access
    lastCall,               \* what the last accessor call did
    lastUse,                \* the last use of a credential
    cluster,                \* the namespace: <<kind, name>> of each existing resource -> its body
    extChanges,             \* number of changes other clients made to the namespace
    applies,                \* number of apply_yaml calls started
    apply_pc,               \* "idle", the API call apply_yaml makes next, "returned" or "raised"
    apply_docs,             \* documents = list(yaml.load_all(yaml_content))
    apply_idx,              \* position in documents of the descriptor being processed
    results,                \* the results dict
    apply_error,            \* the exception apply_yaml raised
    apiLog,                 \* the API calls of this apply_yaml call, in order
    startKeys,              \* the resources that existed when this call started
    startExt,               \* extChanges when this call started
    prev,                   \* summary of the previous apply_yaml call
    job_name,               \* WarpRunner.job_name: <<>> (None) or <<"warp-", suffix>>
    job_suffix,             \* WarpRunner.job_suffix: <<>> (None) or <<suffix>>
    rb_pc,                  \* position inside run_benchmark
    rb_nodes,               \* nodes = self.k8s.get_nodes()
    compute_class_arg,      \* the compute_class argument of this run_benchmark call
    rb_compute_class,       \* compute_class after lines 54-64
    rb_host_count,          \* node_count, passed on as host_count
    rb_akid,                \* the access-key value rendered into the ConfigMap
    rb_secret,              \* the secret-key value rendered into the ConfigMap
    warp_yaml,              \* the rendered manifest: the values the template was filled with
    rb_before,              \* job_name when this run_benchmark call started
    rb_fresh,               \* this call's Job name was rendered by no earlier call
    rendered,               \* the Job names rendered by the calls so far
    rb_last,                \* how the last run_benchmark call ended
    pods,                   \* the pods of the namespace, in the order the pod list API returns them
    poll_pc,                \* position inside the polling cell of the notebook
    _status,                \* the loop variable _status
    warp_results,           \* what the last get_results call returned (or raised)
    polled,                 \* the pods the last get_results call was answered with
    conc_start,             \* the namespace before two callers apply concurrently
    conc_pc,                \* per caller: position inside its apply_yaml call
    conc_docs,              \* per caller: the documents of its call
    conc_idx,               \* per caller: the document its loop is at
    conc_results,           \* per caller: its results dict
    conc_error,             \* per caller: the exception its call raised
    writeLog,               \* the writes the cluster API accepted, in order
    auto_pc,                \* position inside ObjectStorage.auto
    auto_use_lota,          \* the use_lota argument of ObjectStorage.auto
    auto_exc,               \* the exception e the current except clause handles
    auto_client,            \* the client ObjectStorage.auto returned
    auto_raised,            \* the exception ObjectStorage.auto raised
    auto_log,               \* the authentication attempts of the call, in order
    aws_default_region,     \* the AWS_DEFAULT_REGION environment variable: <<>> when unset
    _cluster_region,        \* K8s._cluster_region: <<>> (None) or <<region>>
    region_calls,           \* how many region lookups have been made
    region_last,            \* the last region lookup: inputs and outcome
    bucket,                 \* the keys of the objects in the bucket
    bucket_start,           \* the keys in the bucket when empty_bucket was called
    eb_pc,                  \* position inside empty_bucket
    continuation_token,     \* continuation_token: 0 (None) or the token of the next page
    list_result,            \* what the last list_objects call returned
    total_deleted,          \* total_deleted
    eb_result,              \* what empty_bucket returned: "none", "True" or "False"
    eb_failed,              \* whether a listing failed, and whether a delete failed
    pinning,                \* which test runs: "cpu" (run_cpu_pinned_test) or "gpu"
    num_workers,            \* the num_workers argument
    parent_pc,              \* position of the parent inside the test function
    parent_idx,             \* the worker the spawn loop or the join loop is at
    processes,              \* per worker: the state of its process
    put_msg,                \* per worker: the record its put handed to the queue's buffer
    pipe,                   \* the records in the pipe of result_queue, in order
    worker_results,         \* results: the records the parent has collected
    successful_workers      \* len(successful) once the parent has analysed the results

credVars == <<now, ticks, variant, constructed, cw_token, _access_key_id, _secret_access_key, _credentials_expiry, _credential_duration, _s3_client, mintRequests, credLog, clientSerial, retired, s3pc, argAkid, argSecret, s3Refreshed, lastCall, lastUse>>

applyVars == <<cluster, extChanges, applies, apply_pc, apply_docs, apply_idx, results, apply_error, apiLog, startKeys, startExt, prev>>

warpVars == <<job_name, job_suffix, rb_pc, rb_nodes, compute_class_arg, rb_compute_class, rb_host_count, rb_akid, rb_secret, warp_yaml, rb_before, rb_fresh, rendered, rb_last>>

pollVars == <<pods, poll_pc, _status, warp_results, polled>>

concVars == <<conc_start, conc_pc, conc_docs, conc_idx, conc_results, conc_error, writeLog>>

autoVars == <<auto_pc, auto_use_lota, auto_exc, auto_client, auto_raised, auto_log>>

\* The components added to the credential manager, applier, runner and
\* polling cell.
regionVars == <<aws_default_region, _cluster_region, region_calls, region_last>>

bucketVars == <<bucket, bucket_start, eb_pc, continuation_token, list_result, total_deleted, eb_result, eb_failed>>

workerVars == <<pinning, num_workers, parent_pc, parent_idx, processes, put_msg, pipe, worker_results, successful_workers>>

auxVars == <<autoVars, regionVars, bucketVars, workerVars>>

coreVars == <<credVars, applyVars, warpVars, pollVars, concVars>>

notAutoVars == <<coreVars, regionVars, bucketVars, workerVars>>

notRegionVars == <<coreVars, autoVars, bucketVars, workerVars>>

notBucketVars == <<coreVars, autoVars, regionVars, workerVars>>

notWorkerVars == <<coreVars, autoVars, regionVars, bucketVars>>

vars == <<credVars, applyVars, warpVars, pollVars, concVars, auxVars>>

\* What the credential manager leaves alone, and what the applier does.
notCredVars == <<applyVars, warpVars, pollVars, concVars, auxVars>>

notApplyVars == <<credVars, warpVars, pollVars, concVars, auxVars>>

(***************************************************************************)
(* The credential manager.                                                 *)
(***************************************************************************)
NoClient == [serial |-> 0, akid |-> NoKey, secret |-> NoKey]

\* The fields of the instance the credential code reads and writes.
Self == [token |-> cw_token, variant |-> variant, akid |-> _access_key_id, secret |-> _secret_access_key, expiry |-> _credentials_expiry, duration |-> _credential_duration, s3 |-> _s3_client]

\* What the mint endpoint may answer: no answer at all (a network error), a
\* non-2xx status, or a 2xx response whose JSON body has or lacks each key.
MintReplies == {[kind |-> "network_error", status |-> 0, accessKeyId |-> FALSE, secretKey |-> FALSE], [kind |-> "response", status |-> 503, accessKeyId |-> FALSE, secretKey |-> FALSE]} \cup {[kind |-> "response", status |-> 200, accessKeyId |-> a, secretKey |-> b] : a \in BOOLEAN, b \in BOOLEAN}

\* The environment of one refresh: the mint reply, and whether the node-label
\* lookup of the org id (made by the pod identity variant only) works.
MintEnvs == [reply : MintReplies, orgIdOk : BOOLEAN]

\* Mutant: every accessor call refreshes.
should_refresh_always(self, t) ==
    TRUE

\* Mutant: the comparison with the margin made strict.
should_refresh_strict(self, t) ==
    IF self.akid = NoKey \/ self.secret = NoKey THEN TRUE
    ELSE IF self.expiry = <<>> THEN FALSE
    ELSE t > self.expiry[1] - REFRESH_MARGIN

_should_refresh_credentials(self, t) ==
    IF self.akid = NoKey \/ self.secret = NoKey THEN TRUE
    ELSE IF self.expiry = <<>> THEN FALSE
    ELSE t >= self.expiry[1] - REFRESH_MARGIN

\* The environment of a call that reaches neither the endpoint nor the lookup.
NoEnv == [reply |-> [kind |-> "network_error", status |-> 0, accessKeyId |-> FALSE, secretKey |-> FALSE], orgIdOk |-> TRUE]

\* The environments that matter to an accessor call at time t: the mint
\* endpoint and the org id lookup are reached only when a refresh is due and
\* a token is held, and the lookup only by the pod identity variant.
EnvsFor(self, t) ==
    IF _should_refresh_credentials(self, t) /\ self.token
    THEN {e \in MintEnvs : self.variant = "pod" \/ e.orgIdOk}
    ELSE {NoEnv}

\* The try block shared by both _fetch_temp_access_keys: post,
\* raise_for_status, read the two keys. n is the serial of the key pair a
\* good response carries.
\* Mutant: the check for missing keys left out.
MintExchange_unchecked_keys(reply, n) ==
    IF reply.kind = "network_error" THEN [raised |-> "ObjectStorageError", requests |-> 1, akid |-> NoKey, secret |-> NoKey]
    ELSE IF reply.status >= 400 THEN [raised |-> "ObjectStorageError", requests |-> 1, akid |-> NoKey, secret |-> NoKey]
    ELSE [raised |-> "none", requests |-> 1, akid |-> IF reply.accessKeyId THEN n ELSE NoKey, secret |-> IF reply.secretKey THEN n ELSE NoKey]

MintExchange(reply, n) ==
    IF reply.kind = "network_error" THEN [raised |-> "ObjectStorageError", requests |-> 1, akid |-> NoKey, secret |-> NoKey]
    ELSE IF reply.status >= 400 THEN [raised |-> "ObjectStorageError", requests |-> 1, akid |-> NoKey, secret |-> NoKey]
    ELSE IF ~reply.accessKeyId \/ ~reply.secretKey THEN [raised |-> "ObjectStorageError", requests |-> 1, akid |-> NoKey, secret |-> NoKey]
    ELSE [raised |-> "none", requests |-> 1, akid |-> n, secret |-> n]

AccessKey_fetch_temp_access_keys(env, n) ==
    MintExchange(env.reply, n)

PodIdentity_fetch_temp_access_keys(env, n) ==
    IF ~env.orgIdOk THEN [raised |-> "KubernetesError", requests |-> 0, akid |-> NoKey, secret |-> NoKey]
    ELSE MintExchange(env.reply, n)

_fetch_temp_access_keys(self, env, n) ==
    IF self.variant = "pod" THEN PodIdentity_fetch_temp_access_keys(env, n)
    ELSE AccessKey_fetch_temp_access_keys(env, n)

\* Mutant: the cached S3 client kept across a refresh.
set_credentials_keep_client(self, akid, secret, duration, t) ==
    [self EXCEPT !.akid = akid, !.secret = secret, !.expiry = <<t + duration>>, !.duration = duration]

_set_credentials(self, akid, secret, duration, t) ==
    [self EXCEPT !.akid = akid, !.secret = secret, !.expiry = <<t + duration>>, !.duration = duration, !.s3 = NoClient]

_refresh_credentials(self, env, n, t) ==
    IF ~self.token THEN [raised |-> "ObjectStorageError", requests |-> 0, self |-> self]
    ELSE LET f == _fetch_temp_access_keys(self, env, n)
         IN  IF f.raised # "none" THEN [raised |-> f.raised, requests |-> f.requests, self |-> self]
             ELSE [raised |-> "none", requests |-> f.requests, self |-> _set_credentials(self, f.akid, f.secret, self.duration, t)]

\* The two accessor properties: which is "akid" or "secret".
Accessor(self, which, env, n, t) ==
    LET stale == _should_refresh_credentials(self, t)
        r == IF stale THEN _refresh_credentials(self, env, n, t) ELSE [raised |-> "none", requests |-> 0, self |-> self]
    IN  [raised |-> r.raised, requests |-> r.requests, self |-> r.self, attempted |-> stale, value |-> IF r.raised # "none" THEN NoKey ELSE IF which = "akid" THEN r.self.akid ELSE r.self.secret]

access_key_id(self, env, n, t) ==
    Accessor(self, "akid", env, n, t)

secret_access_key(self, env, n, t) ==
    Accessor(self, "secret", env, n, t)

\* The part of the instance a refresh may change.
Snapshot(self) == [akid |-> self.akid, secret |-> self.secret, expiry |-> self.expiry, s3 |-> self.s3]

NoUse == [kind |-> "none", cred |-> NoKey, secret |-> NoKey, serial |-> 0, at |-> 0, attempted |-> FALSE, retired |-> FALSE]

\* Mutant: a constructor that accepts a missing token.
ObjectStorage_init_unchecked(v, token, regionOk) ==
    IF ~regionOk THEN "MissingRegionError" ELSE "ok"

\* The constructors.  Both run ObjectStorage.__init__ first, which detects
\* the region (detect_region reads the cluster's node labels when no region
\* is passed and AWS_DEFAULT_REGION is unset) and raises MissingRegionError
\* when that fails; AccessKeyObjectStorage.__init__ checks the token only
\* afterwards.  PodIdentityObjectStorage.__init__ accepts an empty token file.
ObjectStorage_init(v, token, regionOk) ==
    IF ~regionOk THEN "MissingRegionError"
    ELSE IF v = "access_key" /\ ~token THEN "MissingCredentialsError"
    ELSE "ok"

\* The instance after construction, but for _credential_duration.
CredConstructed ==
    /\ now = 0
    /\ ticks = 0
    /\ variant \in {"pod", "access_key"}
    /\ cw_token \in BOOLEAN
    /\ \E regionOk \in BOOLEAN : constructed = ObjectStorage_init(variant, cw_token, regionOk)
    /\ _access_key_id = NoKey
    /\ _secret_access_key = NoKey
    /\ _credentials_expiry = <<>>
    /\ _s3_client = NoClient
    /\ mintRequests = 0
    /\ credLog = <<>>
    /\ clientSerial = 0
    /\ retired = {}
    /\ s3pc = "idle"
    /\ argAkid = NoKey
    /\ argSecret = NoKey
    /\ s3Refreshed = FALSE
    /\ lastCall = [op |-> "none", env |-> NoEnv, raised |-> "none", requests |-> 0, attempted |-> FALSE, value |-> NoKey, at |-> 0, pre |-> [akid |-> NoKey, secret |-> NoKey, expiry |-> <<>>, s3 |-> NoClient], post |-> [akid |-> NoKey, secret |-> NoKey, expiry |-> <<>>, s3 |-> NoClient]]
    /\ lastUse = NoUse

CredInit ==
    /\ CredConstructed
    /\ _credential_duration = DEFAULT_ACCESS_TOKEN_DURATION

\* Writes the instance fields back and keeps the books of one accessor call.
AccessorEffects(res, which, env) ==
    /\ res.requests = 0 \/ mintRequests < MaxMintRequests
    /\ _access_key_id' = res.self.akid
    /\ _secret_access_key' = res.self.secret
    /\ _credentials_expiry' = res.self.expiry
    /\ _credential_duration' = res.self.duration
    /\ _s3_client' = res.self.s3
    /\ mintRequests' = mintRequests + res.requests
    /\ credLog' = IF res.attempted /\ res.raised = "none" THEN Append(credLog, res.self.expiry[1]) ELSE credLog
    /\ retired' = IF res.attempted /\ res.raised = "none" THEN retired \cup (1..clientSerial) ELSE retired
    /\ lastCall' = [op |-> which, env |-> env, raised |-> res.raised, requests |-> res.requests, attempted |-> res.attempted, value |-> res.value, at |-> now, pre |-> Snapshot(Self), post |-> Snapshot(res.self)]

\* A caller reads storage.access_key_id (warp.py:175).
GetAccessKeyId ==
    /\ constructed = "ok"
    /\ s3pc = "idle"
    /\ \E env \in EnvsFor(Self, now) :
        LET res == access_key_id(Self, env, Len(credLog) + 1, now)
        IN  /\ AccessorEffects(res, "akid", env)
            /\ lastUse' = IF res.raised = "none" THEN [NoUse EXCEPT !.kind = "akid", !.cred = res.value, !.at = now, !.attempted = res.attempted] ELSE NoUse
    /\ UNCHANGED <<now, ticks, variant, constructed, cw_token, clientSerial, s3pc, argAkid, argSecret, s3Refreshed>>
    /\ UNCHANGED notCredVars

\* A caller reads storage.secret_access_key (warp.py:182).
GetSecretAccessKey ==
    /\ constructed = "ok"
    /\ s3pc = "idle"
    /\ \E env \in EnvsFor(Self, now) :
        LET res == secret_access_key(Self, env, Len(credLog) + 1, now)
        IN  /\ AccessorEffects(res, "secret", env)
            /\ lastUse' = IF res.raised = "none" THEN [NoUse EXCEPT !.kind = "secret", !.cred = res.value, !.secret = res.value, !.at = now, !.attempted = res.attempted] ELSE NoUse
    /\ UNCHANGED <<now, ticks, variant, constructed, cw_token, clientSerial, s3pc, argAkid, argSecret, s3Refreshed>>
    /\ UNCHANGED notCredVars

\* The request a caller sends through the client s3_client returned
\* (self.s3_client.list_buckets() and the like).
S3Use(client, attempted) ==
    [kind |-> "s3", cred |-> client.akid, secret |-> client.secret, serial |-> client.serial, at |-> now, attempted |-> attempted, retired |-> client.serial \in retired]

\* s3_client with a cached client: both subclasses return it as it is.
S3ClientCached ==
    /\ constructed = "ok"
    /\ s3pc = "idle"
    /\ _s3_client # NoClient
    /\ lastUse' = S3Use(_s3_client, FALSE)
    /\ UNCHANGED <<now, ticks, variant, constructed, cw_token, _access_key_id, _secret_access_key, _credentials_expiry, _credential_duration, _s3_client, mintRequests, credLog, clientSerial, retired, s3pc, argAkid, argSecret, s3Refreshed, lastCall>>
    /\ UNCHANGED notCredVars

\* PodIdentityObjectStorage.s3_client with no cached client: the client is
\* built without explicit keys.
PodIdentity_s3_client ==
    /\ constructed = "ok"
    /\ variant = "pod"
    /\ s3pc = "idle"
    /\ _s3_client = NoClient
    /\ clientSerial' = clientSerial + 1
    /\ _s3_client' = [serial |-> clientSerial + 1, akid |-> NoKey, secret |-> NoKey]
    /\ lastUse' = S3Use(_s3_client', FALSE)
    /\ UNCHANGED <<now, ticks, variant, constructed, cw_token, _access_key_id, _secret_access_key, _credentials_expiry, _credential_duration, mintRequests, credLog, retired, s3pc, argAkid, argSecret, s3Refreshed, lastCall>>
    /\ UNCHANGED notCredVars

\* AccessKeyObjectStorage.s3_client with no cached client, first argument:
\* aws_access_key_id=self.access_key_id.
AccessKey_s3_client_akid ==
    /\ constructed = "ok"
    /\ variant = "access_key"
    /\ s3pc = "idle"
    /\ _s3_client = NoClient
    /\ \E env \in EnvsFor(Self, now) :
        LET res == access_key_id(Self, env, Len(credLog) + 1, now)
        IN  /\ AccessorEffects(res, "akid", env)
            /\ s3pc' = IF res.raised = "none" THEN "secret" ELSE "idle"
            /\ argAkid' = res.value
            /\ s3Refreshed' = (res.raised = "none" /\ res.attempted)
    /\ lastUse' = NoUse
    /\ UNCHANGED <<now, ticks, variant, constructed, cw_token, clientSerial, argSecret>>
    /\ UNCHANGED notCredVars

\* Second argument: aws_secret_access_key=self.secret_access_key.
AccessKey_s3_client_secret ==
    /\ s3pc = "secret"
    /\ \E env \in EnvsFor(Self, now) :
        LET res == secret_access_key(Self, env, Len(credLog) + 1, now)
        IN  /\ AccessorEffects(res, "secret", env)
            /\ s3pc' = IF res.raised = "none" THEN "build" ELSE "idle"
            /\ argAkid' = IF res.raised = "none" THEN argAkid ELSE NoKey
            /\ argSecret' = res.value
            /\ s3Refreshed' = (res.raised = "none" /\ (s3Refreshed \/ res.attempted))
    /\ UNCHANGED <<now, ticks, variant, constructed, cw_token, clientSerial, lastUse>>
    /\ UNCHANGED notCredVars

\* boto3.client(...) is called with the two evaluated arguments, the client
\* is cached and returned.
AccessKey_s3_client_build ==
    /\ s3pc = "build"
    /\ clientSerial' = clientSerial + 1
    /\ _s3_client' = [serial |-> clientSerial + 1, akid |-> argAkid, secret |-> argSecret]
    /\ lastUse' = S3Use(_s3_client', s3Refreshed)
    /\ s3pc' = "idle"
    /\ argAkid' = NoKey
    /\ argSecret' = NoKey
    /\ s3Refreshed' = FALSE
    /\ UNCHANGED <<now, ticks, variant, constructed, cw_token, _access_key_id, _secret_access_key, _credentials_expiry, _credential_duration, mintRequests, credLog, retired, lastCall>>
    /\ UNCHANGED notCredVars

\* Wall-clock time passes, between two calls or between the two accessor
\* reads of s3_client (the first may have waited for the mint endpoint).
Tick ==
    /\ ticks < MaxClockAdvances
    /\ s3pc # "build"
    /\ \E d \in TimeJumps : now' = now + d
    /\ ticks' = ticks + 1
    /\ UNCHANGED <<variant, constructed, cw_token, _access_key_id, _secret_access_key, _credentials_expiry, _credential_duration, _s3_client, mintRequests, credLog, clientSerial, retired, s3pc, argAkid, argSecret, s3Refreshed, lastCall, lastUse>>
    /\ UNCHANGED notCredVars

CredNext ==
    \/ GetAccessKeyId
    \/ GetSecretAccessKey
    \/ S3ClientCached
    \/ PodIdentity_s3_client
    \/ AccessKey_s3_client_akid
    \/ AccessKey_s3_client_secret
    \/ AccessKey_s3_client_build
    \/ Tick

(***************************************************************************)
(* The manifest applier: K8s.apply_yaml and the cluster API it calls.      *)
(***************************************************************************)
\* how many apply_yaml calls are made
MaxApplies == 2
\* how many changes other clients make to the namespace
MaxExternalChanges == 1

\* The kinds _create_or_update_resource routes through _apply_resource.
PatchableKinds == {"ServiceAccount", "ConfigMap", "Service", "StatefulSet"}

SupportedKinds == PatchableKinds \cup {"Job"}

\* Versions of a descriptor's body, and what another client wrote.
Bodies == {"rev1", "rev2"}

\* The first eight characters of a uuid4 (warp.py:124), two of them.
Suffixes == {"0a1b2c3d", "4e5f6a7b"}

\* A name is the tuple of its parts; <<>> is a missing name.
ConfigMapDoc(b) == [kind |-> "ConfigMap", name |-> <<"warp-config">>, body |-> b]

ServiceDoc(b) == [kind |-> "Service", name |-> <<"warp">>, body |-> b]

StatefulSetDoc(b) == [kind |-> "StatefulSet", name |-> <<"warp">>, body |-> b]

JobDoc(suffix, b) == [kind |-> "Job", name |-> <<"warp-", suffix>>, body |-> b]

\* The four documents of the f-string _generate_warp_yaml returns.
WarpManifest(suffix, b) == <<ConfigMapDoc(b), ServiceDoc(b), StatefulSetDoc(b), JobDoc(suffix, b)>>

\* An empty YAML document (doc is None).
EmptyDoc == [kind |-> "", name |-> <<>>, body |-> "rev1"]

\* A manifest with a ServiceAccount, a kind outside the match statement, an
\* empty document, a document without metadata.name, and one descriptor
\* twice.
MiscManifest(b) == <<[kind |-> "ServiceAccount", name |-> <<"warp">>, body |-> b], [kind |-> "Deployment", name |-> <<"warp">>, body |-> b], EmptyDoc, [kind |-> "ConfigMap", name |-> <<>>, body |-> b], ConfigMapDoc(b), ConfigMapDoc(b)>>

\* A ConfigMap and the Job that mounts it.
JobManifest(suffix, b) == <<ConfigMapDoc(b), JobDoc(suffix, b)>>

\* The inputs of apply_yaml: a Job manifest per suffix and the mixed one.
Manifests == {JobManifest(x, "rev1") : x \in Suffixes} \cup {MiscManifest("rev2")}

\* The resources the manifests name that the applier reads or writes.
ResourceKeys == {<<d.kind, d.name>> : d \in {e \in UNION {{m[i] : i \in 1..Len(m)} : m \in Manifests} : e.kind \in SupportedKinds /\ e.name # <<>>}}

Key(doc) == <<doc.kind, doc.name>>

\* How a cluster API call may go wrong whatever the namespace holds: not at
\* all, an ApiException with a 5xx status, or an exception that is no
\* ApiException (the connection failed).
Faults == {"none", "api_error", "conn_error"}

\* read_namespaced_*: the status of the answer.
ApiRead(cl, key, fault) ==
    IF fault = "api_error" THEN 500
    ELSE IF fault = "conn_error" THEN 0
    ELSE IF key \in DOMAIN cl THEN 200 ELSE 404

\* patch_namespaced_*: the status, and the namespace afterwards.
ApiPatch(cl, key, body, fault) ==
    IF fault = "api_error" THEN [status |-> 500, cluster |-> cl]
    ELSE IF fault = "conn_error" THEN [status |-> 0, cluster |-> cl]
    ELSE IF key \in DOMAIN cl THEN [status |-> 200, cluster |-> [cl EXCEPT ![key] = body]]
    ELSE [status |-> 404, cluster |-> cl]

\* Mutant: a create that replaces an existing resource instead of answering
\* 409 Conflict.
ApiCreate_overwrite(cl, key, body, fault) ==
    IF fault = "api_error" THEN [status |-> 500, cluster |-> cl]
    ELSE IF fault = "conn_error" THEN [status |-> 0, cluster |-> cl]
    ELSE [status |-> 201, cluster |-> (key :> body) @@ cl]

\* create_namespaced_*: the status, and the namespace afterwards.
ApiCreate(cl, key, body, fault) ==
    IF fault = "api_error" THEN [status |-> 500, cluster |-> cl]
    ELSE IF fault = "conn_error" THEN [status |-> 0, cluster |-> cl]
    ELSE IF key \in DOMAIN cl THEN [status |-> 409, cluster |-> cl]
    ELSE [status |-> 201, cluster |-> (key :> body) @@ cl]

EmptyResults == [created |-> <<>>, updated |-> <<>>, unchanged |-> <<>>]

\* An entry of a results list: f"{kind}/{name}" and the note after it.
Entry(doc, note) == [kind |-> doc.kind, name |-> doc.name, note |-> note]

\* Mutant: a patched resource recorded under created.
RecordUpdated_as_created(res, doc) ==
    [res EXCEPT !.created = Append(@, Entry(doc, ""))]

\* results["updated"].append(f"{kind}/{name}")
RecordUpdated(res, doc) ==
    [res EXCEPT !.updated = Append(@, Entry(doc, ""))]

\* Mutant: a created resource recorded under updated as well.
RecordCreated_and_updated(res, doc) ==
    [res EXCEPT !.created = Append(@, Entry(doc, "")), !.updated = Append(@, Entry(doc, ""))]

\* results["created"].append(f"{kind}/{name}")
RecordCreated(res, doc) ==
    [res EXCEPT !.created = Append(@, Entry(doc, ""))]

\* results["unchanged"].append(f"{kind}/{name} ({note})")
RecordUnchanged(res, doc, note) ==
    [res EXCEPT !.unchanged = Append(@, Entry(doc, note))]

NoError == [type |-> "none", resource |-> <<>>, status |-> 0]

\* apply_yaml's except clauses: an ApiException becomes
\* KubernetesError(f"Failed to apply {kind}/{name}: {e}"), which the outer
\* clause wraps again; any other exception becomes
\* KubernetesError(f"Failed to parse or apply YAML: {e}").
ApplyError(doc, status) ==
    IF status = 0 THEN [type |-> "KubernetesError", resource |-> <<>>, status |-> 0]
    ELSE [type |-> "KubernetesError", resource |-> <<Key(doc)>>, status |-> status]

\* The for loop of apply_yaml from document i up to the next descriptor that
\* needs a cluster API call: empty documents and documents without kind or
\* name are skipped, a kind outside the match statement is recorded under
\* unchanged.
RECURSIVE Scan_skip_unsupported(_, _, _)
\* Mutant: a kind outside the match statement skipped without a record.
Scan_skip_unsupported(docs, i, res) ==
    IF i > Len(docs) THEN [idx |-> i, results |-> res]
    ELSE IF docs[i].kind = "" \/ docs[i].name = <<>> THEN Scan_skip_unsupported(docs, i + 1, res)
    ELSE IF docs[i].kind \in SupportedKinds THEN [idx |-> i, results |-> res]
    ELSE Scan_skip_unsupported(docs, i + 1, res)

RECURSIVE Scan(_, _, _)
Scan(docs, i, res) ==
    IF i > Len(docs) THEN [idx |-> i, results |-> res]
    ELSE IF docs[i].kind = "" \/ docs[i].name = <<>> THEN Scan(docs, i + 1, res)
    ELSE IF docs[i].kind \in SupportedKinds THEN [idx |-> i, results |-> res]
    ELSE Scan(docs, i + 1, RecordUnchanged(res, docs[i], "unsupported resource type"))

\* No apply_yaml call has been made yet.
ApplierIdle ==
    /\ extChanges = 0
    /\ applies = 0
    /\ apply_pc = "idle"
    /\ apply_docs = <<>>
    /\ apply_idx = 0
    /\ results = EmptyResults
    /\ apply_error = NoError
    /\ apiLog = <<>>
    /\ startKeys = {}
    /\ startExt = 0
    /\ prev = [outcome |-> "none", docs |-> <<>>, results |-> EmptyResults, startKeys |-> {}, endKeys |-> {}, startExt |-> 0, endExt |-> 0]

\* An empty namespace and no apply_yaml call yet.
ApplyIdle ==
    /\ cluster = <<>>
    /\ ApplierIdle

\* The summary of the call that has just ended.
Summary == [outcome |-> apply_pc, docs |-> apply_docs, results |-> results, startKeys |-> startKeys, endKeys |-> DOMAIN cluster, startExt |-> startExt, endExt |-> extChanges]

\* Goes on with the loop after document i has been dealt with.
Continue(docs, i, res) ==
    LET nxt == Scan(docs, i, res)
    IN  /\ apply_idx' = nxt.idx
        /\ results' = nxt.results
        /\ apply_pc' = IF nxt.idx > Len(docs) THEN "returned" ELSE "read"
        /\ apply_error' = NoError

\* The call ends with the exception for document apply_idx.
Raise(status) ==
    /\ apply_pc' = "raised"
    /\ apply_error' = ApplyError(apply_docs[apply_idx], status)
    /\ UNCHANGED <<apply_idx, results>>

\* apply_yaml(yaml_content, namespace) is entered with the given documents.
BeginApply(docs) ==
    /\ apply_pc \in {"idle", "returned", "raised"}
    /\ applies < MaxApplies
    /\ applies' = applies + 1
    /\ apply_docs' = docs
    /\ apiLog' = <<>>
    /\ startKeys' = DOMAIN cluster
    /\ startExt' = extChanges
    /\ prev' = IF apply_pc = "idle" THEN prev ELSE Summary
    /\ Continue(docs, 1, EmptyResults)
    /\ UNCHANGED <<cluster, extChanges>>

ApplyStart ==
    /\ \E docs \in Manifests : BeginApply(docs)
    /\ UNCHANGED notApplyVars

\* Mutant: the Job case handled like the other kinds.
AfterRead_patch_jobs(doc) ==
    "patch"

\* What follows a successful read: the Job case records the Job as
\* unchanged, _apply_resource goes on to patch.
AfterRead(doc) ==
    IF doc.kind = "Job" THEN "unchanged" ELSE "patch"

\* read_fn(name, namespace) of _apply_resource, or read_namespaced_job.
ReadStep ==
    /\ apply_pc = "read"
    /\ \E fault \in Faults :
        LET doc == apply_docs[apply_idx]
            status == ApiRead(cluster, Key(doc), fault)
        IN  /\ apiLog' = Append(apiLog, [op |-> "read", idx |-> apply_idx, status |-> status])
            /\ IF status = 200 THEN
                   IF AfterRead(doc) = "unchanged"
                   THEN Continue(apply_docs, apply_idx + 1, RecordUnchanged(results, doc, "jobs cannot be updated"))
                   ELSE /\ apply_pc' = "patch"
                        /\ UNCHANGED <<apply_idx, results, apply_error>>
               ELSE IF status = 404 THEN
                   /\ apply_pc' = "create"
                   /\ UNCHANGED <<apply_idx, results, apply_error>>
               ELSE Raise(status)
    /\ UNCHANGED <<cluster, extChanges, applies, apply_docs, startKeys, startExt, prev>>
    /\ UNCHANGED notApplyVars

\* What follows a patch answered with 404: the patch is inside the try block
\* of _apply_resource, so its 404 reaches the same handler as the read's.
AfterPatchNotFound ==
    "create"

\* patch_fn(name, namespace, doc) of _apply_resource.
PatchStep ==
    /\ apply_pc = "patch"
    /\ \E fault \in Faults :
        LET doc == apply_docs[apply_idx]
            r == ApiPatch(cluster, Key(doc), doc.body, fault)
        IN  /\ apiLog' = Append(apiLog, [op |-> "patch", idx |-> apply_idx, status |-> r.status])
            /\ cluster' = r.cluster
            /\ IF r.status = 200 THEN Continue(apply_docs, apply_idx + 1, RecordUpdated(results, doc))
               ELSE IF r.status = 404 /\ AfterPatchNotFound = "create" THEN
                   /\ apply_pc' = "create"
                   /\ UNCHANGED <<apply_idx, results, apply_error>>
               ELSE Raise(r.status)
    /\ UNCHANGED <<extChanges, applies, apply_docs, startKeys, startExt, prev>>
    /\ UNCHANGED notApplyVars

\* create_fn(namespace, doc) in the 404 handler, or create_namespaced_job.
CreateStep ==
    /\ apply_pc = "create"
    /\ \E fault \in Faults :
        LET doc == apply_docs[apply_idx]
            r == ApiCreate(cluster, Key(doc), doc.body, fault)
        IN  /\ apiLog' = Append(apiLog, [op |-> "create", idx |-> apply_idx, status |-> r.status])
            /\ cluster' = r.cluster
            /\ IF r.status = 201 THEN Continue(apply_docs, apply_idx + 1, RecordCreated(results, doc))
               ELSE Raise(r.status)
    /\ UNCHANGED <<extChanges, applies, apply_docs, startKeys, startExt, prev>>
    /\ UNCHANGED notApplyVars

\* Another client of the cluster creates or deletes a resource.
ExternalChange ==
    /\ extChanges < MaxExternalChanges
    /\ extChanges' = extChanges + 1
    /\ \E key \in ResourceKeys :
        cluster' = IF key \in DOMAIN cluster THEN [k \in DOMAIN cluster \ {key} |-> cluster[k]] ELSE (key :> "foreign") @@ cluster
    /\ UNCHANGED <<applies, apply_pc, apply_docs, apply_idx, results, apply_error, apiLog, startKeys, startExt, prev>>
    /\ UNCHANGED notApplyVars

ApplyNext ==
    \/ ApplyStart
    \/ ReadStep
    \/ PatchStep
    \/ CreateStep
    \/ ExternalChange

(***************************************************************************)
(* The benchmark runner: WarpRunner.run_benchmark.                         *)
(***************************************************************************)
\* What k8s.get_nodes() can return: per class, the node types in dict order
\* with their node_count (a type is only listed once a node of it was seen).
Inventories == {[gpu |-> <<>>, cpu |-> <<[type |-> "cd-gp-i64-erapids", node_count |-> 3]>>], [gpu |-> <<[type |-> "gd-8xh100ib-i128", node_count |-> 4]>>, cpu |-> <<[type |-> "cd-gp-i64-erapids", node_count |-> 2]>>], [gpu |-> <<[type |-> "gd-8xh100ib-i128", node_count |-> 1], [type |-> "gd-8xa100-i128", node_count |-> 2]>>, cpu |-> <<[type |-> "cd-gp-i64-erapids", node_count |-> 1]>>]}

NoNodes == [gpu |-> <<>>, cpu |-> <<>>]

\* The compute_class argument: "none" is the default None.
ComputeClassArgs == {"none", "gpu"}

\* node_count += node_types[t].get("node_count", 0) over the types.
RECURSIVE SumNodeCount(_)
SumNodeCount(types) ==
    IF types = <<>> THEN 0 ELSE Head(types).node_count + SumNodeCount(Tail(types))

\* Mutant: the CPU nodes counted along with the GPU nodes.
SelectNodes_all_classes(nodes, compute_class) ==
    IF compute_class = "none" THEN
        IF nodes.gpu # <<>> THEN [compute_class |-> "gpu", node_count |-> SumNodeCount(nodes.gpu) + SumNodeCount(nodes.cpu)]
        ELSE [compute_class |-> "cpu", node_count |-> SumNodeCount(nodes.cpu)]
    ELSE [compute_class |-> compute_class, node_count |-> 0]

\* Lines 52-64 of run_benchmark: the class and the node count it selects.
SelectNodes(nodes, compute_class) ==
    IF compute_class = "none" THEN
        IF nodes.gpu # <<>> THEN [compute_class |-> "gpu", node_count |-> SumNodeCount(nodes.gpu)]
        ELSE [compute_class |-> "cpu", node_count |-> SumNodeCount(nodes.cpu)]
    ELSE [compute_class |-> compute_class, node_count |-> 0]

\* The name of the Job the manifest is rendered with: warp-{self.job_suffix}.
JobName(suffix) == <<"warp-", suffix>>

\* Mutant: job_name taken from the rendered manifest, whatever was created.
JobNameAfter_rendered(res, old, suffix) ==
    JobName(suffix)

\* Lines 75-78 of run_benchmark: job_name becomes the name of the first
\* created entry that starts with "Job/", and stays as it was without one.
JobNameAfter(res, old, suffix) ==
    LET jobs == SelectSeq(res.created, LAMBDA e : e.kind = "Job")
    IN  IF jobs = <<>> THEN old ELSE jobs[1].name

\* No manifest has been rendered.
NoYaml == [job |-> <<>>, access_key |-> NoKey, secret_key |-> NoKey, warp_client_hi |-> 0, replicas |-> 0, workers_class |-> "none", wait_hi |-> 0, job_class |-> "none"]

\* The values _generate_warp_yaml fills the template with: the warp-client
\* range warp-{0...host_count - 2} and the credentials of the ConfigMap, the
\* replicas and the node class of the StatefulSet, the name, the bound of
\* the wait loop (seq 0 host_count - 2) and the node class of the Job.
_generate_warp_yaml(host_count, compute_class, suffix, akid, secret) ==
    [job |-> JobName(suffix), access_key |-> akid, secret_key |-> secret, warp_client_hi |-> host_count - 2, replicas |-> host_count - 1, workers_class |-> compute_class, wait_hi |-> host_count - 2, job_class |-> "gpu"]

NoRun == [outcome |-> "none", stage |-> "none", job |-> <<>>, before |-> <<>>, fresh |-> TRUE]

\* WarpRunner.__init__
WarpIdle ==
    /\ job_name = <<>>
    /\ job_suffix = <<>>
    /\ rb_pc = "idle"
    /\ rb_nodes = NoNodes
    /\ compute_class_arg = "none"
    /\ rb_compute_class = "none"
    /\ rb_host_count = 0
    /\ rb_akid = NoKey
    /\ rb_secret = NoKey
    /\ warp_yaml = NoYaml
    /\ rb_before = <<>>
    /\ rb_fresh = TRUE
    /\ rendered = {}
    /\ rb_last = NoRun

\* run_benchmark ends: its locals are gone, the outcome is kept for the books.
EndRun(outcome, stage, before) ==
    /\ rb_pc' = "idle"
    /\ rb_nodes' = NoNodes
    /\ compute_class_arg' = "none"
    /\ rb_compute_class' = "none"
    /\ rb_host_count' = 0
    /\ rb_akid' = NoKey
    /\ rb_secret' = NoKey
    /\ warp_yaml' = NoYaml
    /\ rb_last' = [outcome |-> outcome, stage |-> stage, job |-> IF job_suffix = <<>> THEN <<>> ELSE JobName(job_suffix[1]), before |-> before, fresh |-> rb_fresh]

\* run_benchmark is entered: get_nodes, the node count, and the first line
\* of _generate_warp_yaml, which draws the suffix.
RunBenchmark_get_nodes ==
    /\ constructed = "ok"
    /\ rb_pc = "idle"
    /\ s3pc = "idle"
    /\ apply_pc \in {"idle", "returned", "raised"}
    /\ applies < MaxApplies
    /\ rb_before' = job_name
    /\ \/ /\ EndRun("raised", "get_nodes", job_name)
          /\ UNCHANGED <<job_suffix, rb_fresh, rendered>>
       \/ \E nodes \in Inventories, compute_class \in ComputeClassArgs, suffix \in Suffixes :
            LET sel == SelectNodes(nodes, compute_class)
            IN  /\ rb_nodes' = nodes
                /\ compute_class_arg' = compute_class
                /\ rb_compute_class' = sel.compute_class
                /\ rb_host_count' = sel.node_count
                /\ job_suffix' = <<suffix>>
                /\ rb_fresh' = (JobName(suffix) \notin rendered)
                /\ rendered' = rendered \cup {JobName(suffix)}
                /\ rb_pc' = "access_key"
                /\ UNCHANGED <<rb_akid, rb_secret, warp_yaml, rb_last>>
    /\ UNCHANGED <<job_name, credVars, applyVars>>
    /\ UNCHANGED <<pollVars, concVars, auxVars>>

\* The f-string reaches access-key: {self.object_storage.access_key_id}.
RunBenchmark_access_key ==
    /\ rb_pc = "access_key"
    /\ \E env \in EnvsFor(Self, now) :
        LET res == access_key_id(Self, env, Len(credLog) + 1, now)
        IN  /\ AccessorEffects(res, "akid", env)
            /\ lastUse' = IF res.raised = "none" THEN [NoUse EXCEPT !.kind = "akid", !.cred = res.value, !.at = now, !.attempted = res.attempted] ELSE NoUse
            /\ IF res.raised = "none"
               THEN /\ rb_pc' = "secret_key"
                    /\ rb_akid' = res.value
                    /\ UNCHANGED <<rb_nodes, compute_class_arg, rb_compute_class, rb_host_count, rb_secret, warp_yaml, rb_last>>
               ELSE EndRun("raised", "access_key", rb_before)
    /\ UNCHANGED <<now, ticks, variant, constructed, cw_token, clientSerial, s3pc, argAkid, argSecret, s3Refreshed>>
    /\ UNCHANGED <<job_name, job_suffix, rb_before, rb_fresh, rendered, applyVars>>
    /\ UNCHANGED <<pollVars, concVars, auxVars>>

\* The f-string reaches secret-key: {self.object_storage.secret_access_key}.
RunBenchmark_secret_key ==
    /\ rb_pc = "secret_key"
    /\ \E env \in EnvsFor(Self, now) :
        LET res == secret_access_key(Self, env, Len(credLog) + 1, now)
        IN  /\ AccessorEffects(res, "secret", env)
            /\ lastUse' = IF res.raised = "none" THEN [NoUse EXCEPT !.kind = "secret", !.cred = res.value, !.secret = res.value, !.at = now, !.attempted = res.attempted] ELSE NoUse
            /\ IF res.raised = "none"
               THEN /\ rb_pc' = "apply"
                    /\ rb_secret' = res.value
                    /\ warp_yaml' = _generate_warp_yaml(rb_host_count, rb_compute_class, job_suffix[1], rb_akid, res.value)
                    /\ UNCHANGED <<rb_nodes, compute_class_arg, rb_compute_class, rb_host_count, rb_akid, rb_last>>
               ELSE EndRun("raised", "secret_key", rb_before)
    /\ UNCHANGED <<now, ticks, variant, constructed, cw_token, clientSerial, s3pc, argAkid, argSecret, s3Refreshed>>
    /\ UNCHANGED <<job_name, job_suffix, rb_before, rb_fresh, rendered, applyVars>>
    /\ UNCHANGED <<pollVars, concVars, auxVars>>

\* results = self.k8s.apply_yaml(warp_yaml, self.namespace) is entered.
RunBenchmark_apply_yaml ==
    /\ rb_pc = "apply"
    /\ BeginApply(WarpManifest(job_suffix[1], "rev1"))
    /\ rb_pc' = "applying"
    /\ UNCHANGED <<job_name, job_suffix, rb_nodes, compute_class_arg, rb_compute_class, rb_host_count, rb_akid, rb_secret, warp_yaml, rb_before, rb_fresh, rendered, rb_last>>
    /\ UNCHANGED credVars
    /\ UNCHANGED <<pollVars, concVars, auxVars>>

\* apply_yaml has ended: on a result job_name is set from the created list
\* and the result is returned, an exception passes through run_benchmark.
RunBenchmark_return ==
    /\ rb_pc = "applying"
    /\ apply_pc \in {"returned", "raised"}
    /\ job_name' = IF apply_pc = "returned" THEN JobNameAfter(results, job_name, job_suffix[1]) ELSE job_name
    /\ EndRun(apply_pc, "apply_yaml", rb_before)
    /\ UNCHANGED <<job_suffix, rb_before, rb_fresh, rendered>>
    /\ UNCHANGED <<credVars, applyVars>>
    /\ UNCHANGED <<pollVars, concVars, auxVars>>

WarpNext ==
    \/ RunBenchmark_get_nodes
    \/ RunBenchmark_access_key
    \/ RunBenchmark_secret_key
    \/ RunBenchmark_apply_yaml
    \/ RunBenchmark_return
    \/ ReadStep
    \/ PatchStep
    \/ CreateStep

(***************************************************************************)
(* Polling: WarpRunner.get_results and the polling cell of the notebook.   *)
(***************************************************************************)
\* how many pods the Job controller creates for a Job
MaxPods == 2
\* warp.py:348, backoffLimit of the Job
backoffLimit == 4

PodPhases == {"Pending", "Running", "Succeeded", "Failed"}

\* pod_status.lower()
Lower(phase) ==
    CASE phase = "Pending" -> "pending"
      [] phase = "Running" -> "running"
      [] phase = "Succeeded" -> "succeeded"
      [] phase = "Failed" -> "failed"
      [] OTHER -> "unknown"

\* The log text of the warp container of a pod.
LogText(pod) == <<"log of pod", pod.id>>

NoResult == [raised |-> "none", status |-> "", logs |-> <<>>, pod_name |-> 0, error |-> "", list_calls |-> 0, log_calls |-> 0]

\* list_namespaced_pod(namespace, label_selector=f"job-name={job_name}").items
PodsOfJob(all, jn) == SelectSeq(all, LAMBDA pod : pod.job = jn)

\* Mutant: a failed log read is tried once more before the call gives up.
get_results_retry_log(jn, all, listFault, logFault) ==
    IF jn = <<>> THEN [NoResult EXCEPT !.status = "error", !.error = "No job running"]
    ELSE IF listFault THEN [NoResult EXCEPT !.raised = "ApiException", !.list_calls = 1]
    ELSE LET items == PodsOfJob(all, jn)
         IN  IF items = <<>> THEN [NoResult EXCEPT !.status = "no_pods_found", !.error = "Job pods not found", !.list_calls = 1]
             ELSE IF items[1].phase \notin {"Succeeded", "Running", "Failed"}
                  THEN [NoResult EXCEPT !.status = Lower(items[1].phase), !.pod_name = items[1].id, !.list_calls = 1]
             ELSE IF logFault \/ ~items[1].started
                  THEN [NoResult EXCEPT !.status = "error", !.error = "Failed to fetch logs", !.pod_name = items[1].id, !.list_calls = 1, !.log_calls = 2]
             ELSE [NoResult EXCEPT !.status = Lower(items[1].phase), !.logs = LogText(items[1]), !.list_calls = 1, !.log_calls = 1]

\* Mutant: the log of the first pod is read whatever its phase.
get_results_any_phase(jn, all, listFault, logFault) ==
    IF jn = <<>> THEN [NoResult EXCEPT !.status = "error", !.error = "No job running"]
    ELSE IF listFault THEN [NoResult EXCEPT !.raised = "ApiException", !.list_calls = 1]
    ELSE LET items == PodsOfJob(all, jn)
         IN  IF items = <<>> THEN [NoResult EXCEPT !.status = "no_pods_found", !.error = "Job pods not found", !.list_calls = 1]
             ELSE IF logFault \/ ~items[1].started
                  THEN [NoResult EXCEPT !.status = "error", !.error = "Failed to fetch logs", !.pod_name = items[1].id, !.list_calls = 1, !.log_calls = 1]
             ELSE [NoResult EXCEPT !.status = Lower(items[1].phase), !.logs = LogText(items[1]), !.list_calls = 1, !.log_calls = 1]

\* WarpRunner.get_results on a runner whose job_name is jn, answered with the
\* pod list all; listFault and logFault say whether the pod-list call and
\* the log-read call raise.  A pod whose warp container never started has
\* no log to read, the call for it raises.  logs = <<>> stands for a result
\* without a logs field, pod_name = 0 for one without a pod_name field.
get_results(jn, all, listFault, logFault) ==
    IF jn = <<>> THEN [NoResult EXCEPT !.status = "error", !.error = "No job running"]
    ELSE IF listFault THEN [NoResult EXCEPT !.raised = "ApiException", !.list_calls = 1]
    ELSE LET items == PodsOfJob(all, jn)
         IN  IF items = <<>> THEN [NoResult EXCEPT !.status = "no_pods_found", !.error = "Job pods not found", !.list_calls = 1]
             ELSE IF items[1].phase \notin {"Succeeded", "Running", "Failed"}
                  THEN [NoResult EXCEPT !.status = Lower(items[1].phase), !.pod_name = items[1].id, !.list_calls = 1]
             ELSE IF logFault \/ ~items[1].started
                  THEN [NoResult EXCEPT !.status = "error", !.error = "Failed to fetch logs", !.pod_name = items[1].id, !.list_calls = 1, !.log_calls = 1]
             ELSE [NoResult EXCEPT !.status = Lower(items[1].phase), !.logs = LogText(items[1]), !.list_calls = 1, !.log_calls = 1]

\* The statuses that end the while loop of the polling cell.
TerminalStatuses == {"succeeded", "failed", "completed"}

\* No pod exists and the polling cell has not run.
PollIdle ==
    /\ pods = <<>>
    /\ poll_pc = "idle"
    /\ _status = ""
    /\ warp_results = NoResult
    /\ polled = [job |-> <<>>, pods |-> <<>>, listFault |-> FALSE, logFault |-> FALSE]

\* The Job controller creates a pod for a Job of the namespace: the first
\* one, or one more after every earlier pod of the Job has failed, up to
\* backoffLimit retries.  The list API orders pods by name, and the names
\* end in random characters, so the new pod may be listed anywhere.
PodCreate ==
    /\ Len(pods) < MaxPods
    /\ \E key \in DOMAIN cluster, pos \in 1..(Len(pods) + 1) :
        /\ key[1] = "Job"
        /\ \A i \in 1..Len(pods) : pods[i].job = key[2] => pods[i].phase = "Failed"
        /\ Len(PodsOfJob(pods, key[2])) <= backoffLimit
        /\ pods' = SubSeq(pods, 1, pos - 1) \o <<[id |-> Len(pods) + 1, job |-> key[2], phase |-> "Pending", started |-> FALSE]>> \o SubSeq(pods, pos, Len(pods))
    /\ UNCHANGED <<poll_pc, _status, warp_results, polled>>
    /\ UNCHANGED <<credVars, applyVars, warpVars, concVars, auxVars>>

\* A pod moves on: the init container ends and the warp container starts
\* (Running), the init container fails (Failed, the warp container never
\* started), or the warp container ends (Succeeded or Failed).
PodStep ==
    /\ \E i \in 1..Len(pods) :
        \/ /\ pods[i].phase = "Pending"
           /\ pods' = [pods EXCEPT ![i].phase = "Running", ![i].started = TRUE]
        \/ /\ pods[i].phase = "Pending"
           /\ pods' = [pods EXCEPT ![i].phase = "Failed"]
        \/ /\ pods[i].phase = "Running"
           /\ \E ph \in {"Succeeded", "Failed"} : pods' = [pods EXCEPT ![i].phase = ph]
    /\ UNCHANGED <<poll_pc, _status, warp_results, polled>>
    /\ UNCHANGED <<credVars, applyVars, warpVars, concVars, auxVars>>

\* The polling cell runs: _status = "" and the while loop is entered.
PollStart ==
    /\ poll_pc = "idle"
    /\ rb_pc = "idle"
    /\ poll_pc' = "test"
    /\ _status' = ""
    /\ UNCHANGED <<pods, warp_results, polled>>
    /\ UNCHANGED <<credVars, applyVars, warpVars, concVars, auxVars>>

\* while _status not in ["succeeded", "failed", "completed"]
PollTest ==
    /\ poll_pc = "test"
    /\ poll_pc' = IF _status \in TerminalStatuses THEN "done" ELSE "call"
    /\ UNCHANGED <<pods, _status, warp_results, polled>>
    /\ UNCHANGED <<credVars, applyVars, warpVars, concVars, auxVars>>

\* warp_results = warp_runner.get_results(); _status = warp_results.get("status", "unknown").
\* An exception of get_results ends the cell.
PollGetResults(listFault, logFault) ==
    /\ LET r == get_results(job_name, pods, listFault, logFault)
       IN  /\ warp_results' = r
           /\ polled' = [job |-> job_name, pods |-> pods, listFault |-> listFault, logFault |-> logFault]
           /\ _status' = IF r.raised = "none" THEN r.status ELSE _status
           /\ poll_pc' = IF r.raised = "none" THEN "sleep" ELSE "crashed"
    /\ UNCHANGED pods
    /\ UNCHANGED <<credVars, applyVars, warpVars, concVars, auxVars>>

\* get_results with both API calls answered.
PollGetResultsOk ==
    /\ poll_pc = "call"
    /\ PollGetResults(FALSE, FALSE)

\* get_results with the pod-list call or the log-read call failing.
PollGetResultsFault ==
    /\ poll_pc = "call"
    /\ \E listFault, logFault \in BOOLEAN : (listFault \/ logFault) /\ PollGetResults(listFault, logFault)

\* time.sleep(5)
PollSleep ==
    /\ poll_pc = "sleep"
    /\ poll_pc' = "test"
    /\ UNCHANGED <<pods, _status, warp_results, polled>>
    /\ UNCHANGED <<credVars, applyVars, warpVars, concVars, auxVars>>

PollNext ==
    \/ PodCreate
    \/ PodStep
    \/ PollStart
    \/ PollTest
    \/ PollGetResultsOk
    \/ PollGetResultsFault
    \/ PollSleep

\* The runner, the applier, the credentials and the namespace after a
\* run_benchmark call that created the four resources on an empty namespace
\* (the first call of a notebook session, with suffix x).
StartedRun(x) ==
    /\ now = 0
    /\ ticks = 0
    /\ variant = "access_key"
    /\ constructed = "ok"
    /\ cw_token = TRUE
    /\ _access_key_id = 1
    /\ _secret_access_key = 1
    /\ _credentials_expiry = <<DEFAULT_ACCESS_TOKEN_DURATION>>
    /\ _credential_duration = DEFAULT_ACCESS_TOKEN_DURATION
    /\ _s3_client = NoClient
    /\ mintRequests = 1
    /\ credLog = <<DEFAULT_ACCESS_TOKEN_DURATION>>
    /\ clientSerial = 0
    /\ retired = {}
    /\ s3pc = "idle"
    /\ argAkid = NoKey
    /\ argSecret = NoKey
    /\ s3Refreshed = FALSE
    /\ lastCall = [op |-> "secret", env |-> NoEnv, raised |-> "none", requests |-> 0, attempted |-> FALSE, value |-> 1, at |-> 0, pre |-> Snapshot(Self), post |-> Snapshot(Self)]
    /\ lastUse = [NoUse EXCEPT !.kind = "secret", !.cred = 1, !.secret = 1, !.at = 0, !.attempted = FALSE]
    /\ cluster = [key \in {Key(WarpManifest(x, "rev1")[i]) : i \in 1..4} |-> "rev1"]
    /\ extChanges = 0
    /\ applies = 1
    /\ apply_pc = "returned"
    /\ apply_docs = WarpManifest(x, "rev1")
    /\ apply_idx = 5
    /\ results = [EmptyResults EXCEPT !.created = [i \in 1..4 |-> Entry(WarpManifest(x, "rev1")[i], "")]]
    /\ apply_error = NoError
    /\ apiLog = [k \in 1..8 |-> IF k % 2 = 1 THEN [op |-> "read", idx |-> (k + 1) \div 2, status |-> 404] ELSE [op |-> "create", idx |-> k \div 2, status |-> 201]]
    /\ startKeys = {}
    /\ startExt = 0
    /\ prev = [outcome |-> "none", docs |-> <<>>, results |-> EmptyResults, startKeys |-> {}, endKeys |-> {}, startExt |-> 0, endExt |-> 0]
    /\ job_name = JobName(x)
    /\ job_suffix = <<x>>
    /\ rb_pc = "idle"
    /\ rb_nodes = NoNodes
    /\ compute_class_arg = "none"
    /\ rb_compute_class = "none"
    /\ rb_host_count = 0
    /\ rb_akid = NoKey
    /\ rb_secret = NoKey
    /\ warp_yaml = NoYaml
    /\ rb_before = <<>>
    /\ rb_fresh = TRUE
    /\ rendered = {JobName(x)}
    /\ rb_last = [outcome |-> "returned", stage |-> "apply_yaml", job |-> JobName(x), before |-> <<>>, fresh |-> TRUE]

(***************************************************************************)
(* The factory: ObjectStorage.auto.                                        *)
(***************************************************************************)
\* An exception as the except clauses of auto see it: its type, and whether
\* str(e).lower() contains "timeout" or "connect".
NoExc == [type |-> "none", connect |-> FALSE]

\* What a constructor may raise: the token is missing, or the region could
\* not be detected (the message of MissingRegionError carries the message of
\* the cluster API failure, which may be a connection failure).
ConstructorExcs == {[type |-> "MissingCredentialsError", connect |-> FALSE]} \cup {[type |-> "MissingRegionError", connect |-> c] : c \in BOOLEAN}

\* What client.s3_client.list_buckets() may raise: the endpoint rejects the
\* request, the endpoint cannot be reached, or (access keys) the mint
\* exchange behind the accessor failed.
ListBucketsExcs(v) == {[type |-> "ClientError", connect |-> FALSE], [type |-> "EndpointConnectionError", connect |-> TRUE]} \cup (IF v = "access_key" THEN {[type |-> "ObjectStorageError", connect |-> c] : c \in BOOLEAN} ELSE {})

NoAutoClient == [variant |-> "none", lota |-> FALSE, verified |-> FALSE]

\* client = Cls(k8s, cw_token, use_lota, region) followed by
\* client.s3_client.list_buckets(), with the outcomes cons and test.
ConstructAndTest(v, lota, cons, test) ==
    IF cons # NoExc THEN [exc |-> cons, client |-> NoAutoClient]
    ELSE IF test # NoExc THEN [exc |-> test, client |-> NoAutoClient]
    ELSE [exc |-> NoExc, client |-> [variant |-> v, lota |-> lota, verified |-> TRUE]]

\* client = Cls(k8s, cw_token, use_lota=False, region=region) alone.
ConstructOnly(v, lota, cons) ==
    IF cons # NoExc THEN [exc |-> cons, client |-> NoAutoClient]
    ELSE [exc |-> NoExc, client |-> [variant |-> v, lota |-> lota, verified |-> FALSE]]

\* An attempt as the log keeps it.
Attempt(v, lota, r) == [variant |-> v, lota |-> lota, exc |-> r.exc, verified |-> r.client.verified]

\* if use_lota and ("timeout" in e_msg or "connect" in e_msg)
LotaUnreachable(use_lota, e) == use_lota /\ e.connect

\* ObjectStorage.auto has not been called.
AutoIdle ==
    /\ auto_pc = "idle"
    /\ auto_use_lota = TRUE
    /\ auto_exc = NoExc
    /\ auto_client = NoAutoClient
    /\ auto_raised = "none"
    /\ auto_log = <<>>

\* ObjectStorage.auto(k8s, cw_token, use_lota, region) is entered.
AutoCall ==
    /\ auto_pc = "idle"
    /\ \E use_lota \in BOOLEAN : auto_use_lota' = use_lota
    /\ auto_pc' = "pod_identity"
    /\ UNCHANGED <<auto_exc, auto_client, auto_raised, auto_log>>
    /\ UNCHANGED notAutoVars

\* The first try block: pod identity on the preferred endpoint.
AutoPodIdentity ==
    /\ auto_pc = "pod_identity"
    /\ \E cons \in ConstructorExcs \cup {NoExc}, test \in ListBucketsExcs("pod") \cup {NoExc} :
        LET r == ConstructAndTest("pod", auto_use_lota, cons, test)
        IN  /\ auto_log' = Append(auto_log, Attempt("pod", auto_use_lota, r))
            /\ auto_client' = r.client
            /\ auto_exc' = r.exc
            /\ auto_pc' = IF r.exc = NoExc THEN "returned"
                          ELSE IF LotaUnreachable(auto_use_lota, r.exc) THEN "pod_identity_cwobject"
                          ELSE "access_key"
    /\ UNCHANGED <<auto_use_lota, auto_raised>>
    /\ UNCHANGED notAutoVars

\* The nested try block: pod identity on the CWObject endpoint.
AutoPodIdentityCwobject ==
    /\ auto_pc = "pod_identity_cwobject"
    /\ \E cons \in ConstructorExcs \cup {NoExc}, test \in ListBucketsExcs("pod") \cup {NoExc} :
        LET r == ConstructAndTest("pod", FALSE, cons, test)
        IN  /\ auto_log' = Append(auto_log, Attempt("pod", FALSE, r))
            /\ auto_client' = r.client
            /\ auto_exc' = r.exc
            /\ auto_pc' = IF r.exc = NoExc THEN "returned" ELSE "access_key"
    /\ UNCHANGED <<auto_use_lota, auto_raised>>
    /\ UNCHANGED notAutoVars

\* The second try block: access keys on the preferred endpoint; an exception
\* that is no connection failure becomes ObjectStorageError.
AutoAccessKey ==
    /\ auto_pc = "access_key"
    /\ \E cons \in ConstructorExcs \cup {NoExc}, test \in ListBucketsExcs("access_key") \cup {NoExc} :
        LET r == ConstructAndTest("access_key", auto_use_lota, cons, test)
        IN  /\ auto_log' = Append(auto_log, Attempt("access_key", auto_use_lota, r))
            /\ auto_client' = r.client
            /\ auto_exc' = r.exc
            /\ auto_pc' = IF r.exc = NoExc THEN "returned"
                          ELSE IF LotaUnreachable(auto_use_lota, r.exc) THEN "access_key_cwobject"
                          ELSE "raised"
            /\ auto_raised' = IF r.exc # NoExc /\ ~LotaUnreachable(auto_use_lota, r.exc) THEN "ObjectStorageError" ELSE "none"
    /\ UNCHANGED auto_use_lota
    /\ UNCHANGED notAutoVars

\* The except clause of the second try block: the client for the CWObject
\* endpoint is constructed and returned; what its constructor raises leaves
\* auto as it is.
AutoAccessKeyCwobject ==
    /\ auto_pc = "access_key_cwobject"
    /\ \E cons \in ConstructorExcs \cup {NoExc} :
        LET r == ConstructOnly("access_key", FALSE, cons)
        IN  /\ auto_log' = Append(auto_log, Attempt("access_key", FALSE, r))
            /\ auto_client' = r.client
            /\ auto_exc' = r.exc
            /\ auto_pc' = IF r.exc = NoExc THEN "returned" ELSE "raised"
            /\ auto_raised' = r.exc.type
    /\ UNCHANGED auto_use_lota
    /\ UNCHANGED notAutoVars

AutoNext ==
    \/ AutoCall
    \/ AutoPodIdentity
    \/ AutoPodIdentityCwobject
    \/ AutoAccessKey
    \/ AutoAccessKeyCwobject

(***************************************************************************)
(* Region detection: detect_region and K8s.cluster_region.                 *)
(***************************************************************************)
\* how many region lookups are made
MaxDetects == 3

\* A string is the tuple of its parts, <<>> the empty string.
RegionNames == {<<"US-EAST-04">>, <<"US-WEST-01">>}

\* AVAILABILITY_ZONE of k8s.py and the availability_zone default of
\* ObjectStorage.__init__.
AVAILABILITY_ZONE == <<"A">>

\* What core_v1.list_node() may answer: an ApiException, another exception
\* (no connection), no node, a first node without metadata or labels, or a
\* first node with labels that carry a region or none.
NodeAnswers == {[kind |-> k, label |-> <<>>] : k \in {"api_error", "conn_error", "no_nodes", "no_metadata"}} \cup {[kind |-> "labels", label |-> l] : l \in RegionNames \cup {<<>>}}

\* K8s.cluster_region: the cached value, or the region label of the first
\* node followed by the availability zone.
cluster_region(cache, answer) ==
    IF cache # <<>> THEN [raised |-> "none", value |-> cache[1], cache |-> cache]
    ELSE IF answer.kind = "api_error" THEN [raised |-> "KubernetesError", value |-> <<>>, cache |-> cache]
    ELSE IF answer.kind = "conn_error" THEN [raised |-> "ConnectionError", value |-> <<>>, cache |-> cache]
    ELSE IF answer.kind \in {"no_nodes", "no_metadata"} THEN [raised |-> "KubernetesError", value |-> <<>>, cache |-> cache]
    ELSE [raised |-> "none", value |-> answer.label \o AVAILABILITY_ZONE, cache |-> <<answer.label \o AVAILABILITY_ZONE>>]

\* detect_region(k8s): region is the environment variable; the value of
\* k8s.cluster_region is printed, and region is returned.
detect_region(env, cache, answer) ==
    IF env # <<>> THEN [raised |-> "none", value |-> env, cache |-> cache, cluster |-> [raised |-> "none", value |-> <<>>, cache |-> cache], asked |-> FALSE]
    ELSE LET c == cluster_region(cache, answer)
         IN  IF c.raised # "none" THEN [raised |-> "MissingRegionError", value |-> <<>>, cache |-> c.cache, cluster |-> c, asked |-> TRUE]
             ELSE [raised |-> "none", value |-> env, cache |-> c.cache, cluster |-> c, asked |-> TRUE]

\* self.region = region if region else f"{detect_region(self.k8s)}{availability_zone}"
ObjectStorage_region(arg, env, cache, answer) ==
    IF arg # <<>> THEN [raised |-> "none", value |-> arg, cache |-> cache, cluster |-> [raised |-> "none", value |-> <<>>, cache |-> cache], asked |-> FALSE, detected |-> FALSE]
    ELSE LET d == detect_region(env, cache, answer)
         IN  [raised |-> d.raised, value |-> IF d.raised = "none" THEN d.value \o AVAILABILITY_ZONE ELSE <<>>, cache |-> d.cache, cluster |-> d.cluster, asked |-> d.asked, detected |-> TRUE]

NoLookup == [op |-> "none", arg |-> <<>>, answer |-> [kind |-> "no_nodes", label |-> <<>>], raised |-> "none", value |-> <<>>, cluster |-> [raised |-> "none", value |-> <<>>, cache |-> <<>>], asked |-> FALSE, detected |-> FALSE, cached |-> <<>>]

\* No region has been looked up.
RegionIdle ==
    /\ aws_default_region = <<>>
    /\ _cluster_region = <<>>
    /\ region_calls = 0
    /\ region_last = NoLookup

\* The answers that matter to a lookup: the node list is read only when the
\* environment variable is unset and nothing is cached.
AnswersFor(asks) == IF asks THEN NodeAnswers ELSE {[kind |-> "no_nodes", label |-> <<>>]}

\* A caller calls detect_region(k8s).
DetectRegion ==
    /\ region_calls < MaxDetects
    /\ region_calls' = region_calls + 1
    /\ \E answer \in AnswersFor(aws_default_region = <<>> /\ _cluster_region = <<>>) :
        LET d == detect_region(aws_default_region, _cluster_region, answer)
        IN  /\ _cluster_region' = d.cache
            /\ region_last' = [op |-> "detect_region", arg |-> <<>>, answer |-> answer, raised |-> d.raised, value |-> d.value, cluster |-> d.cluster, asked |-> d.asked, detected |-> TRUE, cached |-> _cluster_region]
    /\ UNCHANGED aws_default_region
    /\ UNCHANGED notRegionVars

\* ObjectStorage.__init__ sets self.region from its region argument.
InitRegion ==
    /\ region_calls < MaxDetects
    /\ region_calls' = region_calls + 1
    /\ \E arg \in RegionNames \cup {<<>>} :
        \E answer \in AnswersFor(arg = <<>> /\ aws_default_region = <<>> /\ _cluster_region = <<>>) :
            LET r == ObjectStorage_region(arg, aws_default_region, _cluster_region, answer)
            IN  /\ _cluster_region' = r.cache
                /\ region_last' = [op |-> "init", arg |-> arg, answer |-> answer, raised |-> r.raised, value |-> r.value, cluster |-> r.cluster, asked |-> r.asked, detected |-> r.detected, cached |-> _cluster_region]
    /\ UNCHANGED aws_default_region
    /\ UNCHANGED notRegionVars

\* A caller sets k8s.cluster_region by hand, overriding autodetection.
SetClusterRegion ==
    /\ region_calls < MaxDetects
    /\ region_calls' = region_calls + 1
    /\ \E r \in RegionNames : _cluster_region' = <<r \o AVAILABILITY_ZONE>>
    /\ UNCHANGED <<aws_default_region, region_last>>
    /\ UNCHANGED notRegionVars

RegionNext ==
    \/ DetectRegion
    \/ InitRegion
    \/ SetClusterRegion

(***************************************************************************)
(* Bucket cleanup: ObjectStorage.empty_bucket and list_objects.            *)
(***************************************************************************)
\* how many objects a bucket holds at most
MaxObjects == 4
\* how many keys a page of list_objects_v2 holds (MaxKeys, 1000 in the code)
PageSize == 2

ObjectKeys == 1..MaxObjects

\* The smallest n keys of a set of keys, in order.
RECURSIVE FirstKeys(_, _)
FirstKeys(keys, n) ==
    IF n = 0 \/ keys = {} THEN <<>>
    ELSE LET k == CHOOSE x \in keys : \A y \in keys : x <= y
         IN  <<k>> \o FirstKeys(keys \ {k}, n - 1)

\* s3_client.list_objects_v2: the keys after the continuation token in key
\* order, a page of them, and the token of the next page.
list_objects_v2(keys, token) ==
    LET rest == {k \in keys : k > token}
        page == FirstKeys(rest, PageSize)
    IN  [objects |-> page, is_truncated |-> Cardinality(rest) > PageSize, next_continuation_token |-> IF Cardinality(rest) > PageSize THEN page[Len(page)] ELSE 0]

\* list_objects: the page, or the empty result its except clause returns
\* when the S3 call raises.
list_objects(keys, token, fault) ==
    IF fault THEN [objects |-> <<>>, is_truncated |-> FALSE, next_continuation_token |-> 0]
    ELSE list_objects_v2(keys, token)

NoListResult == [objects |-> <<>>, is_truncated |-> FALSE, next_continuation_token |-> 0]

\* empty_bucket has not been called.
BucketIdle ==
    /\ bucket = {}
    /\ bucket_start = {}
    /\ eb_pc = "idle"
    /\ continuation_token = 0
    /\ list_result = NoListResult
    /\ total_deleted = 0
    /\ eb_result = "none"
    /\ eb_failed = [list |-> FALSE, delete |-> FALSE]

\* empty_bucket(bucket_name) is entered.
EmptyBucketCall ==
    /\ eb_pc = "idle"
    /\ eb_pc' = "list"
    /\ bucket_start' = bucket
    /\ total_deleted' = 0
    /\ continuation_token' = 0
    /\ UNCHANGED <<bucket, list_result, eb_result, eb_failed>>
    /\ UNCHANGED notBucketVars

\* list_result = self.list_objects(...); if not objects: break.
EmptyBucketList ==
    /\ eb_pc = "list"
    /\ \E fault \in BOOLEAN :
        LET r == list_objects(bucket, continuation_token, fault)
        IN  /\ list_result' = r
            /\ eb_failed' = [eb_failed EXCEPT !.list = @ \/ fault]
            /\ eb_pc' = IF r.objects = <<>> THEN "returned" ELSE "delete"
            /\ eb_result' = IF r.objects = <<>> THEN "True" ELSE eb_result
    /\ UNCHANGED <<bucket, bucket_start, continuation_token, total_deleted>>
    /\ UNCHANGED notBucketVars

\* resp = self.s3_client.delete_objects(...): the call raises, or answers
\* with the keys deleted and the keys that failed; then the loop goes on to
\* the next page or ends.
EmptyBucketDelete ==
    /\ eb_pc = "delete"
    /\ LET page == {list_result.objects[i] : i \in 1..Len(list_result.objects)}
       IN  \/ /\ eb_pc' = "returned"
              /\ eb_result' = "False"
              /\ eb_failed' = [eb_failed EXCEPT !.delete = TRUE]
              /\ UNCHANGED <<bucket, continuation_token, total_deleted>>
           \/ \E errors \in SUBSET page :
               /\ bucket' = bucket \ (page \ errors)
               /\ total_deleted' = total_deleted + Cardinality(page \ errors)
               /\ eb_failed' = [eb_failed EXCEPT !.delete = @ \/ errors # {}]
               /\ IF ~list_result.is_truncated
                  THEN /\ eb_pc' = "returned"
                       /\ eb_result' = "True"
                       /\ UNCHANGED continuation_token
                  ELSE /\ eb_pc' = "list"
                       /\ continuation_token' = list_result.next_continuation_token
                       /\ UNCHANGED eb_result
    /\ UNCHANGED <<bucket_start, list_result>>
    /\ UNCHANGED notBucketVars

BucketNext ==
    \/ EmptyBucketCall
    \/ EmptyBucketList
    \/ EmptyBucketDelete

(***************************************************************************)
(* The node throughput benchmark: run_cpu_pinned_test, run_gpu_pinned_test *)
(* and their worker processes.  A multiprocessing.Queue hands a record put *)
(* by a process to a feeder thread, which writes it to a pipe of bounded   *)
(* capacity; a process that has put a record does not exit before its      *)
(* feeder thread has written it.                                           *)
(***************************************************************************)
\* how many worker processes a test spawns at most
MaxWorkers == 3
\* how many records the pipe of the queue holds before a write blocks
PipeCapacity == 2

WorkerIds == 0..(MaxWorkers - 1)

NoMsg == [worker_id |-> 0, kind |-> "none"]

\* No test has been started.
WorkerIdle ==
    /\ pinning = "cpu"
    /\ num_workers = 1
    /\ parent_pc = "idle"
    /\ parent_idx = 0
    /\ processes = [w \in WorkerIds |-> "unstarted"]
    /\ put_msg = [w \in WorkerIds |-> NoMsg]
    /\ pipe = <<>>
    /\ worker_results = <<>>
    /\ successful_workers = 0

\* The test function is entered: result_queue = Queue(), processes = [].
TestCall ==
    /\ parent_pc = "idle"
    /\ parent_pc' = "spawn"
    /\ parent_idx' = 0
    /\ UNCHANGED <<pinning, num_workers, processes, put_msg, pipe, worker_results, successful_workers>>
    /\ UNCHANGED notWorkerVars

\* for worker_id in range(num_workers): p = Process(...); p.start()
ParentSpawn ==
    /\ parent_pc = "spawn"
    /\ IF parent_idx < num_workers
       THEN /\ processes' = [processes EXCEPT ![parent_idx] = "running"]
            /\ parent_idx' = parent_idx + 1
            /\ UNCHANGED parent_pc
       ELSE /\ parent_pc' = "join"
            /\ parent_idx' = 0
            /\ UNCHANGED processes
    /\ UNCHANGED <<pinning, num_workers, put_msg, pipe, worker_results, successful_workers>>
    /\ UNCHANGED notWorkerVars

\* download_on_cpu / download_on_gpu up to its result_queue.put: the result
\* record at the end of the try block, or the error record of the except
\* clause.
WorkerPut ==
    /\ \E w \in WorkerIds, kind \in {"result", "error"} :
        /\ processes[w] = "running"
        /\ processes' = [processes EXCEPT ![w] = "put"]
        /\ put_msg' = [put_msg EXCEPT ![w] = [worker_id |-> w, kind |-> kind]]
    /\ UNCHANGED <<pinning, num_workers, parent_pc, parent_idx, pipe, worker_results, successful_workers>>
    /\ UNCHANGED notWorkerVars

\* The feeder thread of a worker writes the record to the pipe; the write
\* blocks while the pipe is full.
WorkerFlush ==
    /\ \E w \in WorkerIds :
        /\ processes[w] = "put"
        /\ Len(pipe) < PipeCapacity
        /\ pipe' = Append(pipe, put_msg[w])
        /\ processes' = [processes EXCEPT ![w] = "flushed"]
    /\ UNCHANGED <<pinning, num_workers, parent_pc, parent_idx, put_msg, worker_results, successful_workers>>
    /\ UNCHANGED notWorkerVars

\* A worker process exits once its feeder thread has written the record.
WorkerExit ==
    /\ \E w \in WorkerIds :
        /\ processes[w] = "flushed"
        /\ processes' = [processes EXCEPT ![w] = "exited"]
    /\ UNCHANGED <<pinning, num_workers, parent_pc, parent_idx, put_msg, pipe, worker_results, successful_workers>>
    /\ UNCHANGED notWorkerVars

\* A worker process is ended from outside (killed for its memory use, a
\* fault inside the CUDA runtime) before it reaches a put: neither except
\* clause runs.
WorkerKilled ==
    /\ \E w \in WorkerIds :
        /\ processes[w] = "running"
        /\ processes' = [processes EXCEPT ![w] = "killed"]
    /\ UNCHANGED <<pinning, num_workers, parent_pc, parent_idx, put_msg, pipe, worker_results, successful_workers>>
    /\ UNCHANGED notWorkerVars

\* for p in processes: p.join()
ParentJoin ==
    /\ parent_pc = "join"
    /\ IF parent_idx < num_workers
       THEN /\ processes[parent_idx] \in {"exited", "killed"}
            /\ parent_idx' = parent_idx + 1
            /\ UNCHANGED parent_pc
       ELSE /\ parent_pc' = "drain"
            /\ UNCHANGED parent_idx
    /\ UNCHANGED <<pinning, num_workers, processes, put_msg, pipe, worker_results, successful_workers>>
    /\ UNCHANGED notWorkerVars

\* len([r for r in results if 'error' not in r])
Successful(rs) == Len(SelectSeq(rs, LAMBDA r : r.kind # "error"))

\* while not result_queue.empty(): results.append(result_queue.get()),
\* then successful = [r for r in results if 'error' not in r].
ParentDrain ==
    /\ parent_pc = "drain"
    /\ IF pipe # <<>>
       THEN /\ worker_results' = Append(worker_results, Head(pipe))
            /\ pipe' = Tail(pipe)
            /\ UNCHANGED <<parent_pc, successful_workers>>
       ELSE /\ parent_pc' = "done"
            /\ successful_workers' = Successful(worker_results)
            /\ UNCHANGED <<pipe, worker_results>>
    /\ UNCHANGED <<pinning, num_workers, parent_idx, processes, put_msg>>
    /\ UNCHANGED notWorkerVars

WorkerNext ==
    \/ TestCall
    \/ ParentSpawn
    \/ WorkerPut
    \/ WorkerFlush
    \/ WorkerExit
    \/ WorkerKilled
    \/ ParentJoin
    \/ ParentDrain

\* None of the added components has started.
AuxIdle ==
    /\ AutoIdle
    /\ RegionIdle
    /\ BucketIdle
    /\ WorkerIdle

(***************************************************************************)
(* Two callers of apply_yaml on one namespace.  Each caller runs the loop  *)
(* of apply_yaml on its own locals (documents, position, results); the     *)
(* namespace is the only thing they share.                                 *)
(***************************************************************************)
Callers == {"a", "b"}

\* The body a caller's documents carry.
BodyOf(c) == IF c = "a" THEN "rev1" ELSE "rev2"

\* The manifests a caller applies: the runner's four documents, or the
\* ConfigMap and the Job alone; both callers render the same names.
ConcManifests(c) == {WarpManifest("0a1b2c3d", BodyOf(c)), JobManifest("0a1b2c3d", BodyOf(c))}

\* The namespace the two callers start on.
ConcNamespaces == {<<>>, <<"ConfigMap", <<"warp-config">>>> :> "foreign"}

\* No caller has entered apply_yaml.
ConcIdle ==
    /\ conc_start = <<>>
    /\ conc_pc = [c \in Callers |-> "idle"]
    /\ conc_docs = [c \in Callers |-> <<>>]
    /\ conc_idx = [c \in Callers |-> 0]
    /\ conc_results = [c \in Callers |-> EmptyResults]
    /\ conc_error = [c \in Callers |-> NoError]
    /\ writeLog = <<>>

\* Caller c goes on with its loop after document i has been dealt with.
ConcContinue(c, i, res) ==
    LET nxt == Scan(conc_docs[c], i, res)
    IN  /\ conc_idx' = [conc_idx EXCEPT ![c] = nxt.idx]
        /\ conc_results' = [conc_results EXCEPT ![c] = nxt.results]
        /\ conc_pc' = [conc_pc EXCEPT ![c] = IF nxt.idx > Len(conc_docs[c]) THEN "returned" ELSE "read"]
        /\ conc_error' = conc_error

\* Caller c's call ends with the exception for its current document.
ConcRaise(c, status) ==
    /\ conc_pc' = [conc_pc EXCEPT ![c] = "raised"]
    /\ conc_error' = [conc_error EXCEPT ![c] = ApplyError(conc_docs[c][conc_idx[c]], status)]
    /\ UNCHANGED <<conc_idx, conc_results>>

\* Caller c moves on to the call named pc for the same document.
ConcGoto(c, pc) ==
    /\ conc_pc' = [conc_pc EXCEPT ![c] = pc]
    /\ UNCHANGED <<conc_idx, conc_results, conc_error>>

\* A caller enters apply_yaml(yaml_content, namespace).
ConcStart ==
    \E c \in Callers :
        /\ conc_pc[c] = "idle"
        /\ \E docs \in ConcManifests(c) :
            LET nxt == Scan(docs, 1, EmptyResults)
            IN  /\ conc_docs' = [conc_docs EXCEPT ![c] = docs]
                /\ conc_idx' = [conc_idx EXCEPT ![c] = nxt.idx]
                /\ conc_results' = [conc_results EXCEPT ![c] = nxt.results]
                /\ conc_pc' = [conc_pc EXCEPT ![c] = IF nxt.idx > Len(docs) THEN "returned" ELSE "read"]
        /\ UNCHANGED <<conc_start, conc_error, writeLog>>
        /\ UNCHANGED <<credVars, applyVars, warpVars, pollVars, auxVars>>

\* A caller's read_fn(name, namespace), or read_namespaced_job.
ConcReadStep ==
    \E c \in Callers, fault \in Faults :
        /\ conc_pc[c] = "read"
        /\ LET doc == conc_docs[c][conc_idx[c]]
               status == ApiRead(cluster, Key(doc), fault)
           IN  IF status = 200 THEN
                   IF AfterRead(doc) = "unchanged"
                   THEN ConcContinue(c, conc_idx[c] + 1, RecordUnchanged(conc_results[c], doc, "jobs cannot be updated"))
                   ELSE ConcGoto(c, "patch")
               ELSE IF status = 404 THEN ConcGoto(c, "create")
               ELSE ConcRaise(c, status)
        /\ UNCHANGED <<conc_start, conc_docs, writeLog>>
        /\ UNCHANGED <<credVars, applyVars, warpVars, pollVars, auxVars>>

\* The record of a write the cluster API accepted.
Write(c, op, doc) == [caller |-> c, op |-> op, key |-> Key(doc), body |-> doc.body]

\* A caller's patch_fn(name, namespace, doc).
ConcPatchStep ==
    \E c \in Callers, fault \in Faults :
        /\ conc_pc[c] = "patch"
        /\ LET doc == conc_docs[c][conc_idx[c]]
               r == ApiPatch(cluster, Key(doc), doc.body, fault)
           IN  /\ cluster' = r.cluster
               /\ writeLog' = IF r.status = 200 THEN Append(writeLog, Write(c, "patch", doc)) ELSE writeLog
               /\ IF r.status = 200 THEN ConcContinue(c, conc_idx[c] + 1, RecordUpdated(conc_results[c], doc))
                  ELSE IF r.status = 404 /\ AfterPatchNotFound = "create" THEN ConcGoto(c, "create")
                  ELSE ConcRaise(c, r.status)
        /\ UNCHANGED <<conc_start, conc_docs>>
        /\ UNCHANGED <<extChanges, applies, apply_pc, apply_docs, apply_idx, results, apply_error, apiLog, startKeys, startExt, prev>>
        /\ UNCHANGED <<credVars, warpVars, pollVars, auxVars>>

\* A caller's create_fn(namespace, doc), or create_namespaced_job.
ConcCreateStep ==
    \E c \in Callers, fault \in Faults :
        /\ conc_pc[c] = "create"
        /\ LET doc == conc_docs[c][conc_idx[c]]
               r == ApiCreate(cluster, Key(doc), doc.body, fault)
           IN  /\ cluster' = r.cluster
               /\ writeLog' = IF r.status = 201 THEN Append(writeLog, Write(c, "create", doc)) ELSE writeLog
               /\ IF r.status = 201 THEN ConcContinue(c, conc_idx[c] + 1, RecordCreated(conc_results[c], doc))
                  ELSE ConcRaise(c, r.status)
        /\ UNCHANGED <<conc_start, conc_docs>>
        /\ UNCHANGED <<extChanges, applies, apply_pc, apply_docs, apply_idx, results, apply_error, apiLog, startKeys, startExt, prev>>
        /\ UNCHANGED <<credVars, warpVars, pollVars, auxVars>>

ConcNext ==
    \/ ConcStart
    \/ ConcReadStep
    \/ ConcPatchStep
    \/ ConcCreateStep

(***************************************************************************)
(* Specifications.                                                         *)
(***************************************************************************)
\* An object storage client that exists and is not used.
CredIdle ==
    /\ CredInit
    /\ variant = "access_key"
    /\ cw_token
    /\ constructed = "ok"

CredSpecInit ==
    CredInit /\ ApplyIdle /\ WarpIdle /\ PollIdle /\ ConcIdle /\ AuxIdle

CredSpec == CredSpecInit /\ [][CredNext]_vars

ApplySpecInit ==
    CredIdle /\ ApplyIdle /\ WarpIdle /\ PollIdle /\ ConcIdle /\ AuxIdle

ApplySpec == ApplySpecInit /\ [][ApplyNext]_vars

\* The namespace a runner starts on: empty, or holding the Job an earlier
\* session (another WarpRunner) left behind.
Namespaces == {<<>>} \cup {<<"Job", JobName(x)>> :> "foreign" : x \in Suffixes}

WarpSpecInit ==
    /\ CredIdle
    /\ cluster \in Namespaces
    /\ ApplierIdle
    /\ WarpIdle
    /\ PollIdle
    /\ ConcIdle
    /\ AuxIdle

WarpSpec == WarpSpecInit /\ [][WarpNext]_vars

\* The polling cell runs on a fresh runner or after the first run started.
PollSpecInit ==
    /\ (CredIdle /\ ApplyIdle /\ WarpIdle) \/ StartedRun("0a1b2c3d")
    /\ PollIdle
    /\ ConcIdle
    /\ AuxIdle

PollSpec == PollSpecInit /\ [][PollNext]_vars

\* The cell is scheduled, get_results is answered again and again, and a
\* pod that exists does not stay Pending or Running for ever.
PollFairness ==
    /\ WF_vars(PollStart)
    /\ WF_vars(PollTest)
    /\ WF_vars(PollSleep)
    /\ SF_vars(PollGetResultsOk)
    /\ WF_vars(PodStep)

PollLiveSpec == PollSpecInit /\ [][PollNext]_vars /\ PollFairness

\* The durations _set_credentials is applied to: the default and shorter
\* ones, down to the refresh margin and below.
Durations == {60, REFRESH_MARGIN, REFRESH_MARGIN + 1, 3600, DEFAULT_ACCESS_TOKEN_DURATION}

\* An instance whose _credential_duration is any of the durations.
DurationSpecInit ==
    /\ CredConstructed
    /\ _credential_duration \in Durations
    /\ ApplyIdle
    /\ WarpIdle
    /\ PollIdle
    /\ ConcIdle
    /\ AuxIdle

\* Accessor reads as time passes.
DurationNext ==
    \/ GetAccessKeyId
    \/ GetSecretAccessKey
    \/ Tick

DurationSpec == DurationSpecInit /\ [][DurationNext]_vars

\* The environment region lookups run in: AWS_DEFAULT_REGION set or unset.
RegionSpecInit ==
    /\ CredIdle
    /\ ApplyIdle
    /\ WarpIdle
    /\ PollIdle
    /\ ConcIdle
    /\ AutoIdle
    /\ BucketIdle
    /\ WorkerIdle
    /\ aws_default_region \in RegionNames \cup {<<>>}
    /\ _cluster_region = <<>>
    /\ region_calls = 0
    /\ region_last = NoLookup

RegionSpec == RegionSpecInit /\ [][RegionNext]_vars

\* A bucket with any of the objects, about to be emptied.
BucketSpecInit ==
    /\ CredIdle
    /\ ApplyIdle
    /\ WarpIdle
    /\ PollIdle
    /\ ConcIdle
    /\ AutoIdle
    /\ RegionIdle
    /\ WorkerIdle
    /\ bucket \in SUBSET ObjectKeys
    /\ bucket_start = {}
    /\ eb_pc = "idle"
    /\ continuation_token = 0
    /\ list_result = NoListResult
    /\ total_deleted = 0
    /\ eb_result = "none"
    /\ eb_failed = [list |-> FALSE, delete |-> FALSE]

BucketSpec == BucketSpecInit /\ [][BucketNext]_vars

\* empty_bucket is synchronous: every S3 call it makes is answered.
BucketFairness ==
    /\ WF_vars(EmptyBucketCall)
    /\ WF_vars(EmptyBucketList)
    /\ WF_vars(EmptyBucketDelete)

BucketLiveSpec == BucketSpecInit /\ [][BucketNext]_vars /\ BucketFairness

\* A test about to run with any number of workers.
WorkerSpecInit ==
    /\ CredIdle
    /\ ApplyIdle
    /\ WarpIdle
    /\ PollIdle
    /\ ConcIdle
    /\ AutoIdle
    /\ RegionIdle
    /\ BucketIdle
    /\ pinning \in {"cpu", "gpu"}
    /\ num_workers \in 1..MaxWorkers
    /\ parent_pc = "idle"
    /\ parent_idx = 0
    /\ processes = [w \in WorkerIds |-> "unstarted"]
    /\ put_msg = [w \in WorkerIds |-> NoMsg]
    /\ pipe = <<>>
    /\ worker_results = <<>>
    /\ successful_workers = 0

WorkerSpec == WorkerSpecInit /\ [][WorkerNext]_vars

\* The parent and every process that can take a step are scheduled.
WorkerFairness ==
    /\ WF_vars(TestCall)
    /\ WF_vars(ParentSpawn)
    /\ WF_vars(WorkerPut)
    /\ WF_vars(WorkerFlush)
    /\ WF_vars(WorkerExit)
    /\ WF_vars(ParentJoin)
    /\ WF_vars(ParentDrain)

WorkerLiveSpec == WorkerSpecInit /\ [][WorkerNext]_vars /\ WorkerFairness

\* The factory about to be called.
AutoSpecInit ==
    CredIdle /\ ApplyIdle /\ WarpIdle /\ PollIdle /\ ConcIdle /\ AuxIdle

AutoSpec == AutoSpecInit /\ [][AutoNext]_vars

\* Two callers about to apply to the same namespace.
ConcSpecInit ==
    /\ CredIdle
    /\ cluster \in ConcNamespaces
    /\ ApplierIdle
    /\ WarpIdle
    /\ PollIdle
    /\ conc_start = cluster
    /\ conc_pc = [c \in Callers |-> "idle"]
    /\ conc_docs = [c \in Callers |-> <<>>]
    /\ conc_idx = [c \in Callers |-> 0]
    /\ conc_results = [c \in Callers |-> EmptyResults]
    /\ conc_error = [c \in Callers |-> NoError]
    /\ writeLog = <<>>
    /\ AuxIdle

ConcSpec == ConcSpecInit /\ [][ConcNext]_vars


(***************************************************************************)
(* Claims about the credential manager, checked under CredSpec.            *)
(***************************************************************************)

\* C1: a cached credential is never used (returned by an accessor, or sent
\* with a request through the client s3_client returned) at a time
\* now >= expiry - 5 minutes unless a refresh attempt was made first.
C1_NoStaleUseWithoutRefresh ==
    (lastUse.kind # "none" /\ lastUse.cred # NoKey /\ lastUse.at >= credLog[lastUse.cred] - REFRESH_MARGIN) => lastUse.attempted

\* The refresh rule as the specification words it.
IsStale(snap, t) ==
    snap.akid = NoKey \/ snap.secret = NoKey \/ (snap.expiry # <<>> /\ t >= snap.expiry[1] - REFRESH_MARGIN)

\* C2: with a cached key pair of expiry E, _should_refresh_credentials at
\* time t is true iff t >= E - 5 minutes; with no cached key id or no cached
\* secret it is true. Stated of the instance at the current time and at the
\* instants around the margin, and of the decision every accessor call took.
C2_ShouldRefreshRule ==
    /\ (_access_key_id = NoKey \/ _secret_access_key = NoKey) => _should_refresh_credentials(Self, now)
    /\ (_access_key_id # NoKey /\ _secret_access_key # NoKey /\ _credentials_expiry # <<>>) =>
          \A t \in {now, _credentials_expiry[1] - REFRESH_MARGIN - 1, _credentials_expiry[1] - REFRESH_MARGIN, _credentials_expiry[1]} :
              _should_refresh_credentials(Self, t) <=> (t >= _credentials_expiry[1] - REFRESH_MARGIN)
    /\ lastCall.op # "none" => (lastCall.attempted <=> IsStale(lastCall.pre, lastCall.at))

\* C2 witness: an accessor call met a cached pair exactly at expiry - 5
\* minutes and went to refresh it.
C2_Witness ==
    /\ lastCall.op # "none"
    /\ lastCall.pre.akid # NoKey
    /\ lastCall.pre.secret # NoKey
    /\ lastCall.pre.expiry # <<>>
    /\ lastCall.at = lastCall.pre.expiry[1] - REFRESH_MARGIN
    /\ lastCall.attempted

\* C3: a successful refresh leaves no cached S3 client, and s3_client never
\* returns (nor caches) a client that was built before a successful refresh.
C3_RefreshInvalidatesClient ==
    /\ (lastCall.attempted /\ lastCall.raised = "none") => lastCall.post.s3 = NoClient
    /\ lastUse.kind = "s3" => ~lastUse.retired
    /\ _s3_client # NoClient => _s3_client.serial \notin retired

\* C3 witness: a client was built, a later refresh succeeded while it was
\* cached, and s3_client then returned a newly built client.
C3_Witness ==
    /\ lastUse.kind = "s3"
    /\ lastUse.serial >= 2
    /\ 1 \in retired
    /\ lastUse.cred # NoKey
    /\ \E n \in 1..Len(credLog) : n < lastUse.cred

\* A mint exchange that fails: no response, a non-2xx status, or a body
\* without accessKeyId or secretKey.
FailedExchange(reply) ==
    reply.kind = "network_error" \/ reply.status < 200 \/ reply.status > 299 \/ ~reply.accessKeyId \/ ~reply.secretKey

\* The accessor call reached the mint endpoint: a refresh was due, a token
\* is held and (pod identity) the org id was found.
ReachedMint(call) ==
    call.op # "none" /\ call.attempted /\ cw_token /\ (variant = "access_key" \/ call.env.orgIdOk)

CallsFor(i, op) == {k \in 1..Len(apiLog) : apiLog[k].idx = i /\ apiLog[k].op = op}

\* The status the read of document i was answered with (one read a document).
ReadStatus(i) == apiLog[CHOOSE k \in CallsFor(i, "read") : TRUE].status

\* The documents of the current call that have been dealt with for good.
Processed(kinds) == {i \in 1..Len(apply_docs) : i < apply_idx /\ apply_docs[i].kind \in kinds /\ apply_docs[i].name # <<>>}

Range(seq) == {seq[k] : k \in 1..Len(seq)}

\* C5: for a ServiceAccount, ConfigMap, Service or StatefulSet descriptor, a
\* read answered not found leads to a create and an entry in created, a
\* read that succeeds leads to a patch and an entry in updated, and exactly
\* one of create or patch is issued for the descriptor, never both.
C5_ExactlyOneOfCreateOrPatch ==
    \A i \in Processed(PatchableKinds) :
        /\ ReadStatus(i) = 404 => (CallsFor(i, "create") # {} /\ CallsFor(i, "patch") = {} /\ Entry(apply_docs[i], "") \in Range(results.created))
        /\ ReadStatus(i) = 200 => (CallsFor(i, "patch") # {} /\ CallsFor(i, "create") = {} /\ Entry(apply_docs[i], "") \in Range(results.updated))
        /\ Cardinality(CallsFor(i, "create") \cup CallsFor(i, "patch")) = 1

\* C6: apply_yaml never patches a Job; for a Job whose read succeeds it
\* makes no create and no patch call and records the Job under unchanged
\* with the note; a Job is created, and recorded under created, only when
\* its read was answered not found.
C6_JobsAreNeverPatched ==
    \A i \in 1..Len(apply_docs) :
        apply_docs[i].kind = "Job" =>
            /\ CallsFor(i, "patch") = {}
            /\ (CallsFor(i, "read") # {} /\ ReadStatus(i) = 200) =>
                   /\ CallsFor(i, "create") = {}
                   /\ i < apply_idx
                   /\ Entry(apply_docs[i], "jobs cannot be updated") \in Range(results.unchanged)
                   /\ Entry(apply_docs[i], "") \notin Range(results.created)
            /\ CallsFor(i, "create") # {} => ReadStatus(i) = 404
            /\ Entry(apply_docs[i], "") \in Range(results.created) =>
                   (ReadStatus(i) = 404 /\ \E k \in CallsFor(i, "create") : apiLog[k].status = 201)
            /\ Entry(apply_docs[i], "") \notin Range(results.updated)

\* C6 witness: a call returned that found its Job existing and recorded it
\* under unchanged, and the Job carries the body it had (the one the first
\* call created it with).
C6_Witness ==
    /\ apply_pc = "returned"
    /\ \E i \in 1..Len(apply_docs) :
        /\ apply_docs[i].kind = "Job"
        /\ CallsFor(i, "read") # {}
        /\ ReadStatus(i) = 200
        /\ Entry(apply_docs[i], "jobs cannot be updated") \in Range(results.unchanged)
        /\ Key(apply_docs[i]) \in DOMAIN cluster

\* The entries of the descriptors of docs that satisfy keep, in input order.
RECURSIVE EntriesOf(_, _, _)
EntriesOf(docs, keep(_), note) ==
    IF docs = <<>> THEN <<>>
    ELSE (IF keep(Head(docs)) THEN <<Entry(Head(docs), note)>> ELSE <<>>) \o EntriesOf(Tail(docs), keep, note)

NoDuplicates(docs) == \A i, j \in 1..Len(docs) : (i # j /\ docs[i].name # <<>>) => Key(docs[i]) # Key(docs[j])

IsSupported(d) == d.kind \in SupportedKinds /\ d.name # <<>>

IsPatchable(d) == d.kind \in PatchableKinds /\ d.name # <<>>

IsJob(d) == d.kind = "Job" /\ d.name # <<>>

\* Two calls in sequence on the same descriptor set have both returned, and
\* no other client changed the namespace since the first one started.
AppliedTwice ==
    /\ apply_pc = "returned"
    /\ prev.outcome = "returned"
    /\ prev.docs = apply_docs
    /\ NoDuplicates(apply_docs)
    /\ prev.startExt = extChanges

\* What the second of the two calls does, as the claim has it.
SecondApply ==
    /\ results.updated = EntriesOf(apply_docs, IsPatchable, "")
    /\ EntriesOf(apply_docs, IsJob, "jobs cannot be updated") = SelectSeq(results.unchanged, LAMBDA e : e.kind = "Job")
    /\ results.created = <<>>
    /\ DOMAIN cluster = prev.endKeys

\* C7 as stated: the first call records the descriptors under created
\* (non-empty), the second records the non-Job names under updated, the Job
\* under unchanged and nothing under created, and the resources existing
\* after the second call are those existing after the first.
C7_ReapplyAsStated ==
    AppliedTwice =>
        /\ prev.results.created = EntriesOf(apply_docs, IsSupported, "")
        /\ prev.results.created # <<>>
        /\ SecondApply

\* C7 as amended: the first call records under created the supported
\* descriptors whose resource did not exist when it started, under updated
\* the non-Job ones whose resource did, under unchanged the Jobs that did;
\* on a namespace that held none of them created is all of them.
C7_ReapplyAmended ==
    AppliedTwice =>
        /\ prev.results.created = EntriesOf(apply_docs, LAMBDA d : IsSupported(d) /\ Key(d) \notin prev.startKeys, "")
        /\ prev.results.updated = EntriesOf(apply_docs, LAMBDA d : IsPatchable(d) /\ Key(d) \in prev.startKeys, "")
        /\ SelectSeq(prev.results.unchanged, LAMBDA e : e.kind = "Job") = EntriesOf(apply_docs, LAMBDA d : IsJob(d) /\ Key(d) \in prev.startKeys, "jobs cannot be updated")
        /\ ((\A i \in 1..Len(apply_docs) : Key(apply_docs[i]) \notin prev.startKeys) => (prev.results.created = EntriesOf(apply_docs, IsSupported, "") /\ prev.results.created # <<>>))
        /\ SecondApply

\* C7 witness: the same Job manifest applied twice to a namespace that held
\* none of its resources: all created, then ConfigMap updated, Job unchanged.
C7_Witness ==
    /\ AppliedTwice
    /\ prev.startKeys = {}
    /\ Len(prev.results.created) = 2
    /\ Len(results.updated) = 1
    /\ Len(results.unchanged) = 1
    /\ results.unchanged[1].kind = "Job"

\* The call has raised on a read answered with an error other than not found.
ReadFailed ==
    /\ apply_pc = "raised"
    /\ apiLog # <<>>
    /\ apiLog[Len(apiLog)].op = "read"
    /\ apiLog[Len(apiLog)].status \notin {200, 404}

\* C8: when a read fails with an error other than not found, apply_yaml
\* raises KubernetesError for that resource, makes no API call for a later
\* descriptor, leaves what it applied before in place, and the exception
\* reports what was applied before the failure.
C8_ReadFailureReportsPartialState ==
    ReadFailed =>
        /\ apply_error.type = "KubernetesError"
        /\ apply_error.resource = <<Key(apply_docs[apply_idx])>>
        /\ \A k \in 1..Len(apiLog) : apiLog[k].idx <= apply_idx
        /\ startExt = extChanges => \A e \in Range(results.created) \cup Range(results.updated) : <<e.kind, e.name>> \in DOMAIN cluster
        /\ \A e \in Range(results.created) \cup Range(results.updated) : <<e.kind, e.name>> \in Range(apply_error.resource)

(***************************************************************************)
(* Claims about the benchmark runner, checked under WarpSpec.              *)
(***************************************************************************)

\* run_benchmark has returned the apply result of its manifest.
RunReturned == rb_pc = "idle" /\ rb_last.outcome = "returned"

\* The apply result's created list contains the Job.
JobInCreated == \E e \in Range(results.created) : e.kind = "Job"

\* The API calls apply_yaml made for the Job of the manifest.
JobCalls == {k \in 1..Len(apiLog) : apply_docs[apiLog[k].idx].kind = "Job"}

\* This call created the Job, that is, started the run.
RunStarted == \E k \in JobCalls : apiLog[k].op = "create" /\ apiLog[k].status = 201

\* C9: after run_benchmark returns, job_name identifies a run started by
\* that call iff created contains the Job; when the Job is not in created
\* the call started no run, made no create call for the Job (the one Job of
\* that name is the one that existed) and left job_name as it was.
C9_RunStartedIffJobCreated ==
    RunReturned =>
        /\ (job_name = rb_last.job /\ RunStarted) <=> JobInCreated
        /\ JobInCreated => Entry(apply_docs[Len(apply_docs)], "") \in Range(results.created)
        /\ ~JobInCreated =>
               /\ ~RunStarted
               /\ \A k \in JobCalls : apiLog[k].op = "read" /\ apiLog[k].status = 200
               /\ <<"Job", rb_last.job>> \in DOMAIN cluster
               /\ job_name = rb_last.before

\* C9 witness: a call returned without the Job in created, after an earlier
\* call of the runner had started a run: job_name still names the earlier run.
C9_Witness ==
    /\ RunReturned
    /\ ~JobInCreated
    /\ job_name # <<>>
    /\ job_name # rb_last.job
    /\ job_name = rb_last.before

\* The Job of the manifest being applied was found existing.
JobFoundExisting == \E k \in JobCalls : apiLog[k].op = "read" /\ apiLog[k].status = 200

\* C10: every run_benchmark call renders a Job name that no earlier call
\* rendered, so no submission finds its Job existing because an earlier
\* call used the name.
C10_JobNamesNeverCollide ==
    /\ rb_fresh
    /\ (rb_pc = "applying" /\ JobFoundExisting) => cluster[<<"Job", JobName(job_suffix[1])>>] = "foreign"

(***************************************************************************)
(* Claims about polling, checked under PollSpec and PollLiveSpec.          *)
(***************************************************************************)

\* get_results was called on a runner with a started run and returned.
PolledStartedRun == polled.job # <<>> /\ warp_results.raised = "none"

\* The pods the label selector of the last call matched.
PolledItems == PodsOfJob(polled.pods, polled.job)

LogPhases == {"Succeeded", "Running", "Failed"}

\* C11 as stated: for a started run get_results returns no_pods_found when
\* no pod matches, the lowercase phase without logs when the phase is not
\* Succeeded, Running or Failed, and otherwise the lowercase phase together
\* with the log text of the warp container.
C11_GetResultsAsStated ==
    PolledStartedRun =>
        /\ PolledItems = <<>> => warp_results.status = "no_pods_found"
        /\ (PolledItems # <<>> /\ PolledItems[1].phase \notin LogPhases) =>
               (warp_results.status = Lower(PolledItems[1].phase) /\ warp_results.logs = <<>>)
        /\ (PolledItems # <<>> /\ PolledItems[1].phase \in LogPhases) =>
               (warp_results.status = Lower(PolledItems[1].phase) /\ warp_results.logs = LogText(PolledItems[1]))

\* C11 as amended: the third case gives the lowercase phase and the log
\* text when the log read succeeds; when the log read raises, get_results
\* returns status error with the pod name and without logs.  The pod looked
\* at is the first one the pod list returns.
C11_GetResultsAmended ==
    PolledStartedRun =>
        /\ PolledItems = <<>> => (warp_results.status = "no_pods_found" /\ warp_results.logs = <<>>)
        /\ (PolledItems # <<>> /\ PolledItems[1].phase \notin LogPhases) =>
               (warp_results.status = Lower(PolledItems[1].phase) /\ warp_results.logs = <<>> /\ warp_results.log_calls = 0)
        /\ (PolledItems # <<>> /\ PolledItems[1].phase \in LogPhases /\ ~polled.logFault /\ PolledItems[1].started) =>
               (warp_results.status = Lower(PolledItems[1].phase) /\ warp_results.logs = LogText(PolledItems[1]))
        /\ (PolledItems # <<>> /\ PolledItems[1].phase \in LogPhases /\ (polled.logFault \/ ~PolledItems[1].started)) =>
               (warp_results.status = "error" /\ warp_results.logs = <<>> /\ warp_results.pod_name = PolledItems[1].id)

\* C11 witness: a poll of a started run whose pod is Running returned
\* status running with the log text.
C11_Witness ==
    /\ PolledStartedRun
    /\ PolledItems # <<>>
    /\ PolledItems[1].phase = "Running"
    /\ warp_results.status = "running"
    /\ warp_results.logs = LogText(PolledItems[1])
\* The started run is over: the pod get_results looks at, the first one
\* listed for the Job, has reached phase Succeeded or Failed.
CoordinatorPodEnded ==
    /\ job_name # <<>>
    /\ PodsOfJob(pods, job_name) # <<>>
    /\ PodsOfJob(pods, job_name)[1].phase \in {"Succeeded", "Failed"}

\* The while loop has been left (an exception of get_results leaves it too).
LoopLeft == poll_pc \in {"done", "crashed"}

\* C12: the polling loop exits only after get_results reported succeeded,
\* failed or completed, and under fair scheduling it eventually exits
\* whenever the coordinator pod of the started run reaches Succeeded or
\* Failed.
C12_PollingLoopExits ==
    /\ [](poll_pc = "done" => (_status \in TerminalStatuses /\ warp_results.status = _status))
    /\ (CoordinatorPodEnded ~> LoopLeft)

(***************************************************************************)
(* Claims about the rendered manifest, checked under WarpSpec.             *)
(***************************************************************************)

\* run_benchmark is past its node count: the manifest is being rendered or
\* has been handed to apply_yaml.
Rendering == rb_pc \in {"access_key", "secret_key", "apply", "applying"}

\* The number of nodes of the first n node types of a class.
RECURSIVE NodesOfFirst(_, _)
NodesOfFirst(types, n) ==
    IF n = 0 THEN 0 ELSE NodesOfFirst(types, n - 1) + types[n].node_count

\* C13: with compute_class not given, host_count is the sum of node_count
\* over all GPU node types when there is at least one GPU node type (CPU
\* nodes ignored), and otherwise the sum over all CPU node types;
\* {gpu: {}, cpu: {typeA: 3}} gives 3 and {gpu: {typeA: 4}, cpu: ...} gives 4.
C13_HostCountFromInventory ==
    (Rendering /\ compute_class_arg = "none") =>
        /\ rb_nodes.gpu # <<>> => rb_host_count = NodesOfFirst(rb_nodes.gpu, Len(rb_nodes.gpu))
        /\ rb_nodes.gpu = <<>> => rb_host_count = NodesOfFirst(rb_nodes.cpu, Len(rb_nodes.cpu))
        /\ (rb_nodes.gpu = <<>> /\ Len(rb_nodes.cpu) = 1 /\ rb_nodes.cpu[1].node_count = 3) => rb_host_count = 3
        /\ (Len(rb_nodes.gpu) = 1 /\ rb_nodes.gpu[1].node_count = 4) => rb_host_count = 4

\* C13 witness: a call without compute_class on an inventory with two GPU
\* node types and CPU nodes is rendering with the GPU total.
C13_Witness ==
    /\ Rendering
    /\ compute_class_arg = "none"
    /\ Len(rb_nodes.gpu) = 2
    /\ rb_nodes.cpu # <<>>
    /\ rb_host_count = 3
\* The manifest has been rendered and is, or is about to be, applied.
Rendered == rb_pc \in {"apply", "applying"}

\* The ordinals of the pods a StatefulSet with the given replicas creates:
\* warp-0 .. warp-(replicas - 1); a negative replica count is rejected by
\* the API server, so no pod is created.
StatefulSetPods(replicas) == IF replicas >= 0 THEN 0..(replicas - 1) ELSE {}

\* The ordinals seq 0 hi prints (none when hi is negative).
SeqRange(hi) == 0..hi

\* The ordinals of the hosts warp-{0...hi} stands for: the range when hi is
\* a number the ellipsis pattern accepts; a negative bound is no ellipsis
\* pattern, the text is one literal host name that names no pod (written
\* here as the ordinal hi itself, which no pod has).
EllipsisRange(hi) == IF hi >= 0 THEN 0..hi ELSE {hi}

\* C14: for every host count N the manifest is rendered with, the
\* StatefulSet has N-1 replicas and the warp-client range and the wait loop
\* of the coordinator name exactly the pods warp-0 .. warp-(N-2), which are
\* exactly the pods the StatefulSet creates.
C14_WorkerReferencesMatchReplicas ==
    Rendered =>
        /\ warp_yaml.replicas = rb_host_count - 1
        /\ EllipsisRange(warp_yaml.warp_client_hi) = 0..(rb_host_count - 2)
        /\ SeqRange(warp_yaml.wait_hi) = 0..(rb_host_count - 2)
        /\ EllipsisRange(warp_yaml.warp_client_hi) = StatefulSetPods(warp_yaml.replicas)
        /\ SeqRange(warp_yaml.wait_hi) = StatefulSetPods(warp_yaml.replicas)

(***************************************************************************)
(* More claims about the manifest applier, checked under ApplySpec.        *)
(***************************************************************************)

\* The positions of the descriptors (documents with a kind and a name) of
\* the current call whose kind is outside the match statement.
UnsupportedDocs == {i \in 1..Len(apply_docs) : apply_docs[i].kind # "" /\ apply_docs[i].name # <<>> /\ apply_docs[i].kind \notin SupportedKinds}

\* The call is running or has ended.
ApplyEntered == apply_pc # "idle"

\* C15: for a descriptor of a kind outside ServiceAccount, ConfigMap,
\* Service, StatefulSet, Job, apply_yaml raises no error, makes no cluster
\* API call, records it under unchanged with the unsupported note, and goes
\* on with the remaining descriptors.
C15_UnsupportedKindIsRecorded ==
    ApplyEntered =>
        \A i \in UnsupportedDocs :
            /\ \A k \in 1..Len(apiLog) : apiLog[k].idx # i
            /\ apply_idx # i
            /\ i < apply_idx =>
                   /\ Entry(apply_docs[i], "unsupported resource type") \in Range(results.unchanged)
                   /\ \A e \in Range(results.created) \cup Range(results.updated) : <<e.kind, e.name>> # Key(apply_docs[i])
            /\ apply_pc = "raised" => apply_idx # i
            /\ apply_pc = "returned" =>
                   \A j \in (i + 1)..Len(apply_docs) :
                       IsSupported(apply_docs[j]) => CallsFor(j, "read") # {}

\* C15 witness: a call returned whose manifest holds a Deployment followed
\* by a ConfigMap: the Deployment is under unchanged, the ConfigMap applied.
C15_Witness ==
    /\ apply_pc = "returned"
    /\ UnsupportedDocs # {}
    /\ \E e \in Range(results.unchanged) : e.kind = "Deployment" /\ e.note = "unsupported resource type"
    /\ \E e \in Range(results.created) \cup Range(results.updated) : e.kind = "ConfigMap"

\* The descriptors of the current call, in input order.
Descriptors == SelectSeq(apply_docs, LAMBDA d : d.kind # "" /\ d.name # <<>>)

\* The names of the entries of a bucket.
RECURSIVE KeysOf(_)
KeysOf(entries) ==
    IF entries = <<>> THEN <<>> ELSE <<<<Head(entries).kind, Head(entries).name>>>> \o KeysOf(Tail(entries))

\* The names of the descriptors an assignment f puts into bucket b, in
\* input order.
RECURSIVE Assigned(_, _, _, _)
Assigned(ds, f, b, n) ==
    IF n > Len(ds) THEN <<>>
    ELSE (IF f[n] = b THEN <<Key(ds[n])>> ELSE <<>>) \o Assigned(ds, f, b, n + 1)

\* C16: when apply_yaml returns, every descriptor with a kind and a name is
\* in exactly one of created, updated, unchanged, and each bucket lists its
\* entries in the order of the input: the buckets are a partition of the
\* descriptor sequence into three order-preserving subsequences.
C16_BucketsPartitionInput ==
    apply_pc = "returned" =>
        /\ Len(results.created) + Len(results.updated) + Len(results.unchanged) = Len(Descriptors)
        /\ \E f \in [1..Len(Descriptors) -> {"created", "updated", "unchanged"}] :
               /\ KeysOf(results.created) = Assigned(Descriptors, f, "created", 1)
               /\ KeysOf(results.updated) = Assigned(Descriptors, f, "updated", 1)
               /\ KeysOf(results.unchanged) = Assigned(Descriptors, f, "unchanged", 1)

\* C16 witness: a call returned with entries in all three buckets.
C16_Witness ==
    /\ apply_pc = "returned"
    /\ results.created # <<>>
    /\ results.updated # <<>>
    /\ results.unchanged # <<>>
    /\ Len(Descriptors) < Len(apply_docs)

(***************************************************************************)
(* Claims about concurrent applies, checked under ConcSpec.                *)
(***************************************************************************)

\* The accepted writes to a resource, in the order the API served them.
WritesTo(key) == SelectSeq(writeLog, LAMBDA w : w.key = key)

\* The accepted creates of a resource.
CreatesOf(key) == SelectSeq(writeLog, LAMBDA w : w.key = key /\ w.op = "create")

\* The body the resource should carry: that of the last accepted write, or
\* the one it had before the two calls when nobody wrote it.
LastWritten(key) ==
    IF WritesTo(key) = <<>> THEN conc_start[key] ELSE WritesTo(key)[Len(WritesTo(key))].body

\* The resources a caller's manifest names.
KeysOfCaller(c) == {Key(conc_docs[c][i]) : i \in {j \in 1..Len(conc_docs[c]) : IsSupported(conc_docs[c][j])}}

\* What belongs to one caller's call.
Locals(c) == <<conc_pc[c], conc_docs[c], conc_idx[c], conc_results[c], conc_error[c]>>

BothEnded == \A c \in Callers : conc_pc[c] \in {"returned", "raised"}

FirstAccess == lastCall.op # "none" /\ mintRequests = lastCall.requests

\* The last accessor call was made on a fetched credential at a time before
\* expiry - 5 minutes.
EarlyAccess ==
    /\ lastCall.op # "none"
    /\ lastCall.pre.akid # NoKey
    /\ lastCall.pre.secret # NoKey
    /\ lastCall.pre.expiry # <<>>
    /\ lastCall.at < lastCall.pre.expiry[1] - REFRESH_MARGIN

\* Nothing is fetched before the first accessor call, and an accessor call
\* before expiry - 5 minutes issues no mint request, returns the cached
\* value and leaves credential, expiry and cached S3 client as they were.
LazyAndCached ==
    /\ lastCall.op = "none" => (mintRequests = 0 /\ _access_key_id = NoKey /\ _secret_access_key = NoKey /\ _credentials_expiry = <<>>)
    /\ EarlyAccess =>
           /\ lastCall.requests = 0
           /\ lastCall.raised = "none"
           /\ lastCall.value = (IF lastCall.op = "akid" THEN lastCall.pre.akid ELSE lastCall.pre.secret)
           /\ lastCall.post = lastCall.pre

\* C18 as stated: lazy and cached, and the first access_key_id or
\* secret_access_key access issues exactly one mint request.
C18_LazyFetchAsStated ==
    /\ LazyAndCached
    /\ FirstAccess => lastCall.requests = 1

\* C18 amended: lazy and cached, and the first access issues exactly one
\* mint request when a token is held and (pod identity) the org id lookup
\* works; otherwise it issues none, raises and leaves the fields alone.
C18_LazyFetchAmended ==
    /\ LazyAndCached
    /\ FirstAccess =>
           IF cw_token /\ (variant = "pod" => lastCall.env.orgIdOk)
           THEN lastCall.requests = 1
           ELSE lastCall.requests = 0 /\ lastCall.raised # "none" /\ lastCall.post = lastCall.pre

\* C18 witness: after a first access that fetched the credential with one
\* request, a later access before expiry - 5 minutes returned it.
C18_Witness ==
    /\ EarlyAccess
    /\ ticks > 0
    /\ lastCall.at > 0
    /\ mintRequests = 1
    /\ lastCall.requests = 0
    /\ lastCall.value # NoKey
    /\ _s3_client # NoClient

Refreshed == lastCall.op # "none" /\ lastCall.attempted /\ lastCall.raised = "none"

\* The instance as the last accessor call left it.
SelfAfterLastCall == [Self EXCEPT !.akid = lastCall.post.akid, !.secret = lastCall.post.secret, !.expiry = lastCall.post.expiry, !.s3 = lastCall.post.s3]

AttemptsOf(v) == {i \in 1..Len(auto_log) : auto_log[i].variant = v}

\* C21: ObjectStorage.auto tries pod identity before access keys, and it
\* either returns a client verified by a successful list_buckets call made
\* on a client of the same variant and endpoint, or raises
\* ObjectStorageError after every attempt failed.
C21_AutoReturnsVerifiedClient ==
    /\ \A i \in AttemptsOf("access_key") : \A j \in AttemptsOf("pod") : j < i
    /\ auto_log # <<>> => auto_log[1].variant = "pod"
    /\ auto_pc = "returned" =>
           /\ auto_client.verified
           /\ \E i \in 1..Len(auto_log) :
                  /\ auto_log[i].exc = NoExc
                  /\ auto_log[i].verified
                  /\ auto_log[i].variant = auto_client.variant
                  /\ auto_log[i].lota = auto_client.lota
    /\ auto_pc = "raised" =>
           /\ auto_raised = "ObjectStorageError"
           /\ \A i \in 1..Len(auto_log) : auto_log[i].exc # NoExc

(***************************************************************************)
(* Claims about region detection, checked under RegionSpec.                *)
(***************************************************************************)

\* The last lookup ran detect_region.
Detected == region_last.op # "none" /\ region_last.detected

\* The cluster reported a region to the last lookup: a region label on the
\* first node, or a cached region.
ClusterReportsRegion ==
    /\ region_last.asked
    /\ region_last.cluster.raised = "none"
    /\ region_last.cluster.value \notin {<<>>, AVAILABILITY_ZONE}

\* What detect_region itself returned in the last lookup.
DetectedValue ==
    IF region_last.op = "init" /\ region_last.raised = "none" THEN SubSeq(region_last.value, 1, Len(region_last.value) - 1) ELSE region_last.value

\* C22: detect_region returns AWS_DEFAULT_REGION when it is set; when it is
\* unset and the cluster reports a region, the region detected from the
\* cluster; and it raises MissingRegionError when neither gives a region.
C22_DetectRegion ==
    Detected =>
        /\ aws_default_region # <<>> => (region_last.raised = "none" /\ DetectedValue = aws_default_region)
        /\ (aws_default_region = <<>> /\ ClusterReportsRegion) => (region_last.raised = "none" /\ DetectedValue = region_last.cluster.value)
        /\ (aws_default_region = <<>> /\ ~ClusterReportsRegion) => region_last.raised = "MissingRegionError"

(***************************************************************************)
(* Claims about bucket cleanup, checked under BucketLiveSpec.              *)
(***************************************************************************)

\* empty_bucket returned True only with every object it started with gone,
\* and False whenever a listing or a delete failed.
EmptyBucketResult ==
    eb_pc = "returned" =>
        /\ eb_result = "True" => bucket_start \cap bucket = {}
        /\ (eb_failed.list \/ eb_failed.delete) => eb_result = "False"

\* C23: empty_bucket terminates for every finite bucket, returns True only
\* if every object that was in the bucket when it was called has been
\* deleted, and returns False if listing or deleting any object failed.
C23_EmptyBucket ==
    /\ []EmptyBucketResult
    /\ (eb_pc \in {"list", "delete"} ~> eb_pc = "returned")

(***************************************************************************)
(* More claims about polling, checked under PollSpec.                      *)
(***************************************************************************)

\* A step that is a get_results call of the polling cell.
GetResultsStep == poll_pc = "call" /\ poll_pc' # "call"

\* C24: get_results returns one snapshot per call: at most one pod-list
\* call and at most one log-read call (none without a job, no log read
\* without a pod in a phase with logs), the call is one step that returns a
\* result or raises, and it leaves job_name, job_suffix, the resources of
\* the namespace and its pods as they are.
C24_GetResultsSingleSnapshot ==
    /\ [](/\ warp_results.list_calls <= 1
          /\ warp_results.log_calls <= warp_results.list_calls
          /\ polled.job = <<>> => warp_results.list_calls = 0
          /\ warp_results.logs # <<>> => warp_results.log_calls = 1)
    /\ [][GetResultsStep =>
            /\ poll_pc' \in {"sleep", "crashed"}
            /\ UNCHANGED <<job_name, job_suffix, cluster, pods>>
            /\ polled'.pods = pods]_vars

\* C24 witness: a poll of a started run read the pod list and the log once
\* each while the Job and its pod stayed as they were.
C24_Witness ==
    /\ poll_pc = "sleep"
    /\ job_name # <<>>
    /\ warp_results.list_calls = 1
    /\ warp_results.log_calls = 1
    /\ warp_results.logs # <<>>
    /\ polled.pods = pods
    /\ <<"Job", job_name>> \in DOMAIN cluster

(***************************************************************************)
(* A claim about the two accessor reads of one use, checked under          *)
(* CredSpec.  The n-th mint response carries the key pair <<n, n>>.         *)
(***************************************************************************)

\* C25: an access key id and a secret access key read one after the other
\* for a single use come from the same mint response, even when the
\* credential is refreshed between the two reads: the two arguments of
\* boto3.client, and so the keys of every cached client, belong together.
C25_KeyPairFromOneMint ==
    /\ s3pc = "build" => argAkid = argSecret
    /\ _s3_client.akid = _s3_client.secret

(***************************************************************************)
(* More claims about the benchmark runner, checked under WarpSpec.         *)
(***************************************************************************)

\* C26: between run_benchmark calls, whatever the calls so far did (apply
\* raised, no Job was created), job_name when set is "warp-" followed by
\* job_suffix: get_results polls the Job of the run rendered last.
C26_JobNameMatchesSuffix ==
    (rb_pc = "idle" /\ job_name # <<>>) =>
        /\ job_suffix # <<>>
        /\ job_name = JobName(job_suffix[1])

\* C27: every manifest run_benchmark submits has a StatefulSet replica
\* count of at least 0 and a worker index range 0..host_count - 2 whose
\* upper bound is at least 0, for every inventory and compute_class.
C27_ReplicasAndRangeNonNegative ==
    Rendered =>
        /\ warp_yaml.replicas >= 0
        /\ warp_yaml.warp_client_hi >= 0
        /\ warp_yaml.wait_hi >= 0

\* C28: the node class the coordinator Job's node affinity requires is the
\* compute class run_benchmark selected for the StatefulSet workers.
C28_JobClassMatchesWorkers ==
    Rendered => warp_yaml.job_class = warp_yaml.workers_class

(***************************************************************************)
(* A claim about the status of a Job with several pods, checked under      *)
(* PollSpec.                                                               *)
(***************************************************************************)

\* The pods of the polled Job as the last get_results call was answered.
PolledJobPods == PodsOfJob(polled.pods, polled.job)

\* The phases of those pods.
PolledPhases == {PolledJobPods[i].phase : i \in 1..Len(PolledJobPods)}

\* The last get_results call returned a status read from the pod list.
Answered == warp_results.raised = "none" /\ warp_results.list_calls = 1

\* C29: when get_results reports failed, no pod of the Job is running or
\* has succeeded at that moment; and succeeded is reported as soon as any
\* pod of the Job has succeeded (and its log can be read).
C29_FailedMeansJobFailed ==
    Answered =>
        /\ warp_results.status = "failed" => PolledPhases \cap {"Running", "Succeeded"} = {}
        /\ ("Succeeded" \in PolledPhases /\ ~polled.logFault) => warp_results.status = "succeeded"

(***************************************************************************)
(* A claim about the worker processes of the throughput benchmark, checked *)
(* under WorkerLiveSpec.                                                   *)
(***************************************************************************)

\* The workers the test spawns.
Spawned == 0..(num_workers - 1)

\* The records a worker has put that are somewhere: in its buffer, in the
\* pipe or with the parent.
RecordsOf(w) ==
    (IF processes[w] = "put" THEN 1 ELSE 0)
    + Len(SelectSeq(pipe, LAMBDA r : r.worker_id = w))
    + Len(SelectSeq(worker_results, LAMBDA r : r.worker_id = w))

\* Once the parent has analysed the results it holds exactly one record of
\* every spawned worker, and successful_workers counts the workers that
\* reported no error.
OneRecordPerWorker ==
    parent_pc = "done" =>
        /\ \A w \in Spawned : RecordsOf(w) = 1
        /\ Len(worker_results) = num_workers
        /\ successful_workers = Cardinality({w \in Spawned : put_msg[w].kind = "result"})

\* C30: every spawned worker puts exactly one record on the result queue,
\* the parent's join-all-then-drain sequence always terminates, and after
\* it the parent has one record per worker and successful_workers is the
\* number of workers that reported no error.
C30_JoinThenDrain ==
    /\ [](\A w \in Spawned : RecordsOf(w) <= 1)
    /\ []OneRecordPerWorker
    /\ (parent_pc = "spawn" ~> parent_pc = "done")

====
